---- MODULE Spec2Model ----
(***************************************************************************)
(* The unbuffered (sans-I/O) TLS connection API of rustls:                 *)
(* UnbufferedConnectionCommon::process_tls_records and the guards it       *)
(* returns (rustls/src/conn/unbuffered.rs).  One connection is modelled,   *)
(* driven by a caller that appends peer bytes to its incoming buffer,      *)
(* advances the connection, handles the returned guard and discards the    *)
(* bytes the status tells it to discard.                                   *)
(*                                                                         *)
(* The record layer and the handshake engine (ConnectionCore::deframe,     *)
(* ConnectionCore::process_msg, the eager_send operations of CommonState)  *)
(* are not part of the sources at hand; they are modelled from the         *)
(* contracts the design document gives for them (sections 4.1, 4.4, 4.5).  *)
(***************************************************************************)
EXTENDS Integers, Sequences, FiniteSets, TLC

VARIABLES
    conn,       \* the UnbufferedConnectionCommon object (its fields)
    incoming,   \* caller's incoming buffer: the complete records it holds
    partial,    \* bytes of an incomplete record at the end of the incoming buffer
    outgoing,   \* caller's outgoing buffer (bytes)
    status,     \* the UnbufferedStatus the last advance returned
    guard,      \* the guard object inside that status
    op,         \* the last operation called on the connection or its guard
    ret,        \* what that operation returned
    adv,        \* what the last advance did (records deframed, records fed, ...)
    hs          \* a client and a server driven through a handshake in
                \* lock step, with their buffers (see HandshakeSpec)

vars == <<conn, incoming, partial, outgoing, status, guard, op, ret, adv, hs>>

\* --------------------------------------------------------------- bounds

\* Most complete records the incoming buffer holds at a time.
MaxBuf == 2

\* Most bytes of an incomplete record at the end of the incoming buffer.
MaxPartial == 1

\* Capacity of the caller's outgoing buffer, in bytes.
OutCap == 2

\* Records the record layer can encrypt under one traffic key before the
\* sequence space of the key is exhausted.
SeqSpace == 1

\* ----------------------------------------------------------- basic data

\* Option<T>: None is the empty sequence, Some(x) the one-element sequence.
None == <<>>

Some(x) == <<x>>

RECURSIVE Flatten(_)
\* Concatenation of a sequence of byte sequences.
Flatten(chunks) ==
    IF chunks = <<>> THEN <<>> ELSE Head(chunks) \o Flatten(Tail(chunks))

RECURSIVE SumLen(_)
\* Total wire length of a sequence of records.
SumLen(recs) ==
    IF recs = <<>> THEN 0 ELSE Head(recs).len + SumLen(Tail(recs))

\* The chunks (owned byte sequences) the engine produces in this model.
ChunkA == <<1>>

ChunkB == <<2, 3>>

\* The chunk of no bytes: the payload of a zero-length application-data
\* record.
ChunkEmpty == <<>>

\* A record on the wire: what it is, what the engine produces when it
\* processes it (`plain`: the plaintext chunks it decrypts to, `out`: the
\* chunks the engine queues for the peer in answer, `traffic`: whether it
\* completes the handshake), and its length in bytes (a one-byte header plus
\* the body).
Rec(kind, plain, out, traffic) ==
    [kind |-> kind, plain |-> plain, out |-> out, traffic |-> traffic,
     len |-> 1 + Len(Flatten(plain)) + Len(out)]

\* The records the peer may send.
MsgSet ==
    { Rec("handshake", <<>>, <<ChunkB, ChunkA>>, TRUE),
      Rec("application_data", <<ChunkB, ChunkEmpty>>, <<ChunkA, ChunkB>>,
          FALSE),
      Rec("early_data", <<ChunkA, ChunkB>>, <<ChunkA, ChunkB>>, FALSE),
      Rec("close_notify", <<>>, <<>>, FALSE),
      Rec("malformed", <<>>, <<>>, FALSE) }

\* The plaintexts the caller may ask to encrypt.
PlainSet == { <<7>> }

\* ------------------------------------------------- Result<State, Error>

Ok(v) == [ok |-> TRUE, v |-> v]

Err(e) == [ok |-> FALSE, v |-> e]

\* The errors of the model: a record that cannot be parsed, a record that
\* is illegal in the engine's state, and the placeholder the dispatcher
\* keeps in the engine state while a record is being processed.
Errors == {"InvalidMessage", "InappropriateMessage", "HandshakeNotComplete"}

\* ------------------------------------------------ the connection object

\* The first message of a handshake, which a client queues when it is
\* constructed.
ClientHello == <<1>>

\* UnbufferedConnectionCommon right after construction (role: "client" or
\* "server"): handshaking, no flag set; a client has its ClientHello
\* queued, a server nothing.
NewConnection(role) ==
    [role |-> role,
     state |-> Ok("ExpectHandshake"),
     wants_write |-> FALSE,
     may_send_application_data |-> FALSE,
     has_received_close_notify |-> FALSE,
     sendable_tls |-> IF role = "client" THEN <<ClientHello>> ELSE <<>>,
     received_plaintext |-> <<>>,
     early_data |-> <<>>,
     write_seq |-> 0]

\* ------------------------------------------------------- deframer view

\* DeframerSliceBuffer::new: a view of the caller's incoming buffer with
\* nothing consumed yet.
DeframerSliceBuffer_new(recs, tail) ==
    [recs |-> recs, partial |-> tail, discard |-> 0]

\* DeframerSliceBuffer::pending_discard: bytes of the records consumed.
pending_discard(buffer) == buffer.discard

\* ConnectionCore::deframe: the next complete record of the buffer, if there
\* is one.  A record that cannot be parsed is a fatal protocol error; such a
\* record is not consumed, and the engine state is not the deframer's to
\* change.  A partial record stays in place.
deframe(c, buffer) ==
    IF buffer.recs = <<>>
    THEN [res |-> Ok(None), conn |-> c, buffer |-> buffer]
    ELSE IF Head(buffer.recs).kind = "malformed"
    THEN [res |-> Err("InvalidMessage"), conn |-> c, buffer |-> buffer]
    ELSE [res |-> Ok(Some(Head(buffer.recs))),
          conn |-> c,
          buffer |-> [buffer EXCEPT !.recs = Tail(buffer.recs),
                                    !.discard = @ + Head(buffer.recs).len]]

\* ---------------------------------------------------- handshake engine

\* ConnectionCore::process_msg: the engine consumes one record in engine
\* state `state`; it either fails or gives the new engine state, having
\* pushed chunks onto the queues and set flags of the connection.
process_msg(c, msg, state) ==
    CASE msg.kind = "handshake" ->
           [res |-> Ok(IF msg.traffic THEN "ExpectTraffic" ELSE state),
            conn |-> [c EXCEPT
                !.sendable_tls = @ \o msg.out,
                !.may_send_application_data = @ \/ msg.traffic]]
      [] msg.kind = "application_data" ->
           IF state = "ExpectTraffic"
           THEN [res |-> Ok(state),
                 conn |-> [c EXCEPT
                     !.received_plaintext = @ \o msg.plain,
                     !.sendable_tls = @ \o msg.out]]
           ELSE [res |-> Err("InappropriateMessage"), conn |-> c]
      [] msg.kind = "early_data" ->
           IF c.role = "server" /\ state = "ExpectHandshake"
           THEN [res |-> Ok(state),
                 conn |-> [c EXCEPT
                     !.early_data = @ \o msg.plain,
                     !.sendable_tls = @ \o msg.out]]
           ELSE [res |-> Err("InappropriateMessage"), conn |-> c]
      [] msg.kind = "close_notify" ->
           [res |-> Ok(state),
            conn |-> [c EXCEPT !.has_received_close_notify = TRUE]]
      [] OTHER ->
           [res |-> Err("InappropriateMessage"), conn |-> c]

\* check of a server that, like a client's, never hands out early data (a
\* mutant).
check_Never(c) == [value |-> None, conn |-> c]

\* ServerConnectionData::pop_early_data and the closures process_tls_records
\* passes as `check`: the client never has early data to hand out, the server
\* pops the next early-data chunk.
check(c) ==
    IF c.role = "server" /\ c.early_data # <<>>
    THEN [value |-> Some(Head(c.early_data)),
          conn |-> [c EXCEPT !.early_data = Tail(@)]]
    ELSE [value |-> None, conn |-> c]

\* ----------------------------------------------------------- dispatcher

\* Branch with the close_notify flag looked at before the queues (a mutant).
Branch_ClosedFirst(c) ==
    IF c.has_received_close_notify THEN "deframe"
    ELSE IF check(c).value # None THEN "early_data"
    ELSE IF c.received_plaintext # <<>> THEN "received_plaintext"
    ELSE IF c.sendable_tls # <<>> THEN "sendable_tls"
    ELSE "deframe"

\* Branch that deframes before it drains the outbound queue (a mutant).
Branch_DeframeBeforeSendable(c) ==
    IF check(c).value # None THEN "early_data"
    ELSE IF c.received_plaintext # <<>> THEN "received_plaintext"
    ELSE "deframe"

\* Branch with the outbound queue ahead of the plaintext queue (a mutant).
Branch_SendableFirst(c) ==
    IF check(c).value # None THEN "early_data"
    ELSE IF c.sendable_tls # <<>> THEN "sendable_tls"
    ELSE IF c.received_plaintext # <<>> THEN "received_plaintext"
    ELSE "deframe"

\* Branch that looks at the early-data queue after the other two queues (a
\* mutant).
Branch_EarlyDataLast(c) ==
    IF c.received_plaintext # <<>> THEN "received_plaintext"
    ELSE IF c.sendable_tls # <<>> THEN "sendable_tls"
    ELSE IF check(c).value # None THEN "early_data"
    ELSE "deframe"

\* Branch that looks for a record before it hands out plaintext (a mutant).
Branch_DeframeFirst(c) ==
    IF check(c).value # None THEN "early_data"
    ELSE "deframe"

\* The order in which one iteration of the loop of
\* process_tls_records_common looks for work.
Branch(c) ==
    IF check(c).value # None THEN "early_data"
    ELSE IF c.received_plaintext # <<>> THEN "received_plaintext"
    ELSE IF c.sendable_tls # <<>> THEN "sendable_tls"
    ELSE "deframe"

\* Feed that clears may_send_application_data when the engine fails (a
\* mutant).
Feed_ResetOnError(c, msg) ==
    LET taken == c.state
        c1 == [c EXCEPT !.state = Err("HandshakeNotComplete")]
    IN  IF ~taken.ok
        THEN [ret |-> Some(taken.v), fed |-> FALSE,
              conn |-> [c1 EXCEPT !.state = Err(taken.v)]]
        ELSE LET r == process_msg(c1, msg, taken.v)
             IN  IF r.res.ok
                 THEN [ret |-> None, fed |-> TRUE,
                       conn |-> [r.conn EXCEPT !.state = Ok(r.res.v)]]
                 ELSE [ret |-> Some(r.res.v), fed |-> TRUE,
                       conn |-> [r.conn EXCEPT
                           !.state = Err(r.res.v),
                           !.may_send_application_data = FALSE]]

\* Feed that puts the engine state back as it was when the engine fails (a
\* mutant).
Feed_NoPoison(c, msg) ==
    LET taken == c.state
        c1 == [c EXCEPT !.state = Err("HandshakeNotComplete")]
    IN  IF ~taken.ok
        THEN [ret |-> Some(taken.v), fed |-> FALSE,
              conn |-> [c1 EXCEPT !.state = Err(taken.v)]]
        ELSE LET r == process_msg(c1, msg, taken.v)
             IN  IF r.res.ok
                 THEN [ret |-> None, fed |-> TRUE,
                       conn |-> [r.conn EXCEPT !.state = Ok(r.res.v)]]
                 ELSE [ret |-> Some(r.res.v), fed |-> TRUE,
                       conn |-> [r.conn EXCEPT !.state = taken]]

\* Feed that, finding the engine poisoned, returns the stored error without
\* storing it back (a mutant).
Feed_LeavePlaceholder(c, msg) ==
    LET taken == c.state
        c1 == [c EXCEPT !.state = Err("HandshakeNotComplete")]
    IN  IF ~taken.ok
        THEN [ret |-> Some(taken.v), fed |-> FALSE, conn |-> c1]
        ELSE LET r == process_msg(c1, msg, taken.v)
             IN  IF r.res.ok
                 THEN [ret |-> None, fed |-> TRUE,
                       conn |-> [r.conn EXCEPT !.state = Ok(r.res.v)]]
                 ELSE [ret |-> Some(r.res.v), fed |-> TRUE,
                       conn |-> [r.conn EXCEPT !.state = Err(r.res.v)]]

\* The dispatcher's handling of a deframed record: take the engine state
\* out (leaving a placeholder), return the stored error if the engine is
\* poisoned, else let the engine process the record and store the outcome.
Feed(c, msg) ==
    LET taken == c.state
        c1 == [c EXCEPT !.state = Err("HandshakeNotComplete")]
    IN  IF ~taken.ok
        THEN [ret |-> Some(taken.v), fed |-> FALSE,
              conn |-> [c1 EXCEPT !.state = Err(taken.v)]]
        ELSE LET r == process_msg(c1, msg, taken.v)
             IN  IF r.res.ok
                 THEN [ret |-> None, fed |-> TRUE,
                       conn |-> [r.conn EXCEPT !.state = Ok(r.res.v)]]
                 ELSE [ret |-> Some(r.res.v), fed |-> TRUE,
                       conn |-> [r.conn EXCEPT !.state = Err(r.res.v)]]

\* FallThrough with the close_notify flag ahead of wants_write (a mutant).
FallThrough_ClosedFirst(c) ==
    IF c.has_received_close_notify THEN "ConnectionClosed"
    ELSE IF c.wants_write THEN "MustTransmitTlsData"
    ELSE IF c.may_send_application_data THEN "TrafficTransit"
    ELSE "NeedsMoreTlsData"

\* FallThrough with may_send_application_data ahead of wants_write (a
\* mutant).
FallThrough_TrafficFirst(c) ==
    IF c.may_send_application_data THEN "TrafficTransit"
    ELSE IF c.wants_write THEN "MustTransmitTlsData"
    ELSE IF c.has_received_close_notify THEN "ConnectionClosed"
    ELSE "NeedsMoreTlsData"

\* The state returned when no complete record is available.
FallThrough(c) ==
    IF c.wants_write THEN "MustTransmitTlsData"
    ELSE IF c.has_received_close_notify THEN "ConnectionClosed"
    ELSE IF c.may_send_application_data THEN "TrafficTransit"
    ELSE "NeedsMoreTlsData"

\* Whether nothing is queued on the connection.
QueuesEmpty(c) ==
    /\ c.early_data = <<>>
    /\ c.received_plaintext = <<>>
    /\ c.sendable_tls = <<>>

\* What an advance has done so far: the records it deframed, those it
\* handed to the engine, whether every deframing found the queues empty,
\* whether a record was deframed with has_received_close_notify set, and
\* the number of loop iterations; with the connection as it was when the
\* advance began (`pre`) and the status the caller remembers of the advance
\* before (`prev`).
NoStatus == [discard |-> 0, state |-> "None", err |-> "none"]

NoTrace ==
    [deframed |-> <<>>, fed |-> <<>>, drained |-> TRUE,
     after_close |-> FALSE, iters |-> 0, pre |-> None, prev |-> NoStatus]

StartTrace(c, prev) == [NoTrace EXCEPT !.pre = Some(c), !.prev = prev]

\* Return that reports no discard with an error (a mutant).
Return_NoDiscardOnErr(c, buffer, state, err, chunk, t) ==
    [conn |-> c,
     discard |-> IF state = "Err" THEN 0 ELSE pending_discard(buffer),
     state |-> state, err |-> err, chunk |-> chunk, trace |-> t]

\* Return that counts the consumed records twice (a mutant).
Return_DoubleCount(c, buffer, state, err, chunk, t) ==
    [conn |-> c, discard |-> pending_discard(buffer) + SumLen(t.deframed),
     state |-> state, err |-> err, chunk |-> chunk, trace |-> t]

\* Return that, handing out a plaintext chunk, also drops the head of the
\* outbound queue (a mutant).
Return_PopTwo(c, buffer, state, err, chunk, t) ==
    [conn |-> [c EXCEPT !.sendable_tls =
                    IF state = "AppDataAvailable" /\ @ # <<>>
                    THEN Tail(@) ELSE @],
     discard |-> pending_discard(buffer), state |-> state,
     err |-> err, chunk |-> chunk, trace |-> t]

\* Return that, handing out a plaintext chunk, leaves the chunk at the head
\* of the inbound plaintext queue (a mutant).
Return_KeepPlaintext(c, buffer, state, err, chunk, t) ==
    [conn |-> [c EXCEPT !.received_plaintext =
                    IF state = "AppDataAvailable" THEN chunk \o @ ELSE @],
     discard |-> pending_discard(buffer), state |-> state,
     err |-> err, chunk |-> chunk, trace |-> t]

\* Return that clears has_received_close_notify once it has reported
\* ConnectionClosed (a mutant).
Return_ForgetClose(c, buffer, state, err, chunk, t) ==
    [conn |-> [c EXCEPT !.has_received_close_notify =
                    @ /\ state # "ConnectionClosed"],
     discard |-> pending_discard(buffer), state |-> state,
     err |-> err, chunk |-> chunk, trace |-> t]

\* The UnbufferedStatus an advance returns, with the connection as the
\* advance leaves it.
Return(c, buffer, state, err, chunk, t) ==
    [conn |-> c, discard |-> pending_discard(buffer), state |-> state,
     err |-> err, chunk |-> chunk, trace |-> t]

RECURSIVE Loop_ExtraTurn(_, _, _)
\* Loop that, after a record the engine has processed, goes round once
\* without deframing anything before it carries on (a mutant).
Loop_ExtraTurn(c, buffer, t0) ==
    LET t == [t0 EXCEPT !.iters = @ + 1]
        b == Branch(c)
    IN  CASE b = "early_data" ->
               Return(check(c).conn, buffer, "EarlyDataAvailable", "none",
                      check(c).value, t)
          [] b = "received_plaintext" ->
               Return([c EXCEPT !.received_plaintext = Tail(@)], buffer,
                      "AppDataAvailable", "none",
                      Some(Head(c.received_plaintext)), t)
          [] b = "sendable_tls" ->
               Return([c EXCEPT !.sendable_tls = Tail(@)], buffer,
                      "MustEncodeTlsData", "none",
                      Some(Head(c.sendable_tls)), t)
          [] OTHER ->
               LET c0 == check(c).conn
                   d == deframe(c0, buffer)
                   td == [t EXCEPT !.drained = @ /\ QueuesEmpty(c)]
               IN  IF ~d.res.ok
                   THEN Return(d.conn, d.buffer, "Err", d.res.v, None, td)
                   ELSE IF d.res.v # None
                   THEN LET msg == d.res.v[1]
                            f == Feed(d.conn, msg)
                            tf == [td EXCEPT
                                !.deframed = Append(@, msg),
                                !.fed = IF f.fed THEN Append(@, msg) ELSE @,
                                !.after_close =
                                    @ \/ c.has_received_close_notify]
                        IN  IF f.ret # None
                            THEN Return(f.conn, d.buffer, "Err", f.ret[1],
                                        None, tf)
                            ELSE Loop_ExtraTurn(f.conn, d.buffer,
                                                [tf EXCEPT !.iters = @ + 1])
                   ELSE Return(d.conn, d.buffer, FallThrough(d.conn), "none",
                               None, td)

RECURSIVE Loop(_, _, _)
\* The loop of process_tls_records_common.
Loop(c, buffer, t0) ==
    LET t == [t0 EXCEPT !.iters = @ + 1]
        b == Branch(c)
    IN  CASE b = "early_data" ->
               Return(check(c).conn, buffer, "EarlyDataAvailable", "none",
                      check(c).value, t)
          [] b = "received_plaintext" ->
               Return([c EXCEPT !.received_plaintext = Tail(@)], buffer,
                      "AppDataAvailable", "none",
                      Some(Head(c.received_plaintext)), t)
          [] b = "sendable_tls" ->
               Return([c EXCEPT !.sendable_tls = Tail(@)], buffer,
                      "MustEncodeTlsData", "none",
                      Some(Head(c.sendable_tls)), t)
          [] OTHER ->
               LET c0 == check(c).conn
                   d == deframe(c0, buffer)
                   td == [t EXCEPT !.drained = @ /\ QueuesEmpty(c)]
               IN  IF ~d.res.ok
                   THEN Return(d.conn, d.buffer, "Err", d.res.v, None, td)
                   ELSE IF d.res.v # None
                   THEN LET msg == d.res.v[1]
                            f == Feed(d.conn, msg)
                            tf == [td EXCEPT
                                !.deframed = Append(@, msg),
                                !.fed = IF f.fed THEN Append(@, msg) ELSE @,
                                !.after_close =
                                    @ \/ c.has_received_close_notify]
                        IN  IF f.ret # None
                            THEN Return(f.conn, d.buffer, "Err", f.ret[1],
                                        None, tf)
                            ELSE Loop(f.conn, d.buffer, tf)
                   ELSE Return(d.conn, d.buffer, FallThrough(d.conn), "none",
                               None, td)

\* UnbufferedConnectionCommon::process_tls_records on the incoming buffer
\* that holds the complete records `recs` and `tail` more bytes; `prev` is
\* the status of the advance before.
process_tls_records(c, recs, tail, prev) ==
    Loop(c, DeframerSliceBuffer_new(recs, tail), StartTrace(c, prev))

\* --------------------------------------------------------------- guards

\* No guard is held.
NoGuard ==
    [kind |-> "None", chunk |-> None, taken |-> FALSE, required |-> 0,
     num_bytes |-> None]

\* The guard inside a returned status: AppDataAvailable::new,
\* EarlyDataAvailable::new and MustEncodeTlsData::new keep the chunk; the
\* other variants carry none.  `required` remembers the size encode last
\* reported as InsufficientSize on this guard (0: none yet).  `num_bytes`
\* is the field of NeedsMoreTlsData, which the dispatcher always sets to
\* None.
NewGuard(state, chunk) ==
    [kind |-> IF state = "Err" THEN "None" ELSE state,
     chunk |-> chunk, taken |-> FALSE, required |-> 0,
     num_bytes |-> None]

\* A caller's outgoing slice of n bytes before a call writes to it.
Blank(n) == [i \in 1..n |-> 0]

\* The return values of the guards' operations.
NoRet == [kind |-> "None", n |-> 0, len |-> 0]

RetOk(n, len) == [kind |-> "Ok", n |-> n, len |-> len]

InsufficientSize(required_size, len) ==
    [kind |-> "InsufficientSize", n |-> required_size, len |-> len]

AlreadyEncoded(len) == [kind |-> "AlreadyEncoded", n |-> 0, len |-> len]

EncryptExhausted(len) == [kind |-> "EncryptExhausted", n |-> 0, len |-> len]

\* The size check of the write operations: a slice shorter than the size
\* required is too small, one of exactly that size is not.
TooSmall_OffByOne(required_size, outgoing_tls) ==
    required_size >= Len(outgoing_tls)

TooSmall(required_size, outgoing_tls) ==
    required_size > Len(outgoing_tls)

\* encode that does not put the chunk back when the buffer is too small (a
\* mutant).
encode_NoRestore(g, c, out) ==
    IF g.chunk = None
    THEN [ret |-> AlreadyEncoded(Len(out)), guard |-> g, conn |-> c,
          out |-> out]
    ELSE LET chunk == g.chunk[1]
         IN  IF Len(chunk) > Len(out)
             THEN [ret |-> InsufficientSize(Len(chunk), Len(out)),
                   guard |-> [g EXCEPT !.chunk = None,
                                       !.required = Len(chunk)],
                   conn |-> c, out |-> out]
             ELSE [ret |-> RetOk(Len(chunk), Len(out)),
                   guard |-> [g EXCEPT !.chunk = None],
                   conn |-> [c EXCEPT !.wants_write = TRUE],
                   out |-> chunk \o SubSeq(out, Len(chunk) + 1, Len(out))]

\* encode that writes the chunk at the end of the slice (a mutant).
encode_AtEnd(g, c, out) ==
    IF g.chunk = None
    THEN [ret |-> AlreadyEncoded(Len(out)), guard |-> g, conn |-> c,
          out |-> out]
    ELSE LET chunk == g.chunk[1]
         IN  IF Len(chunk) > Len(out)
             THEN [ret |-> InsufficientSize(Len(chunk), Len(out)),
                   guard |-> [g EXCEPT !.required = Len(chunk)],
                   conn |-> c, out |-> out]
             ELSE [ret |-> RetOk(Len(chunk), Len(out)),
                   guard |-> [g EXCEPT !.chunk = None],
                   conn |-> [c EXCEPT !.wants_write = TRUE],
                   out |-> SubSeq(out, 1, Len(out) - Len(chunk)) \o chunk]

\* encode that keeps its chunk after it has written it (a mutant).
encode_Twice(g, c, out) ==
    IF g.chunk = None
    THEN [ret |-> AlreadyEncoded(Len(out)), guard |-> g, conn |-> c,
          out |-> out]
    ELSE LET chunk == g.chunk[1]
         IN  IF Len(chunk) > Len(out)
             THEN [ret |-> InsufficientSize(Len(chunk), Len(out)),
                   guard |-> [g EXCEPT !.required = Len(chunk)],
                   conn |-> c, out |-> out]
             ELSE [ret |-> RetOk(Len(chunk), Len(out)),
                   guard |-> g,
                   conn |-> [c EXCEPT !.wants_write = TRUE],
                   out |-> chunk \o SubSeq(out, Len(chunk) + 1, Len(out))]

\* encode that does not set wants_write (a mutant).
encode_NoWantsWrite(g, c, out) ==
    IF g.chunk = None
    THEN [ret |-> AlreadyEncoded(Len(out)), guard |-> g, conn |-> c,
          out |-> out]
    ELSE LET chunk == g.chunk[1]
         IN  IF Len(chunk) > Len(out)
             THEN [ret |-> InsufficientSize(Len(chunk), Len(out)),
                   guard |-> [g EXCEPT !.required = Len(chunk)],
                   conn |-> c, out |-> out]
             ELSE [ret |-> RetOk(Len(chunk), Len(out)),
                   guard |-> [g EXCEPT !.chunk = None],
                   conn |-> c,
                   out |-> chunk \o SubSeq(out, Len(chunk) + 1, Len(out))]

\* encode that writes as much of the chunk as the slice can take instead of
\* asking for a larger one (a mutant).
encode_Truncate(g, c, out) ==
    IF g.chunk = None
    THEN [ret |-> AlreadyEncoded(Len(out)), guard |-> g, conn |-> c,
          out |-> out]
    ELSE LET chunk == g.chunk[1]
             written == IF Len(chunk) > Len(out) THEN Len(out)
                        ELSE Len(chunk)
         IN  [ret |-> RetOk(written, Len(out)),
              guard |-> [g EXCEPT !.chunk = None],
              conn |-> [c EXCEPT !.wants_write = TRUE],
              out |-> SubSeq(chunk, 1, written)
                        \o SubSeq(out, written + 1, Len(out))]

\* MustEncodeTlsData::encode on guard g of connection c, with the outgoing
\* slice `out`.
encode(g, c, out) ==
    IF g.chunk = None
    THEN [ret |-> AlreadyEncoded(Len(out)), guard |-> g, conn |-> c,
          out |-> out]
    ELSE LET chunk == g.chunk[1]
             required_size == Len(chunk)
         IN  IF TooSmall(required_size, out)
             THEN [ret |-> InsufficientSize(required_size, Len(out)),
                   guard |-> [g EXCEPT !.chunk = Some(chunk),
                                       !.required = required_size],
                   conn |-> c, out |-> out]
             ELSE LET written == Len(chunk)
                  IN  [ret |-> RetOk(written, Len(out)),
                       guard |-> [g EXCEPT !.chunk = None],
                       conn |-> [c EXCEPT !.wants_write = TRUE],
                       out |-> chunk \o SubSeq(out, written + 1, Len(out))]

\* done that leaves wants_write set (a mutant).
done_Keep(c) == c

\* MustTransmitTlsData::done.
done(c) == [c EXCEPT !.wants_write = FALSE]

\* may_encrypt_app_data that always returns a guard (a mutant).
may_encrypt_app_data_Always(c) == TRUE

\* may_encrypt_app_data that never returns a guard (a mutant).
may_encrypt_app_data_Never(c) == FALSE

\* MustTransmitTlsData::may_encrypt_app_data: whether it returns a guard.
may_encrypt_app_data(c) == c.may_send_application_data

\* The record the record layer writes for a plaintext: a header byte and
\* the encrypted payload.
Encrypted(data) == <<9>> \o [i \in 1..Len(data) |-> data[i] + 10]

\* The record of a close_notify warning alert.
CloseNotifyRecord == <<9, 5>>

\* The sequence space of the traffic key is exhausted: the record layer
\* refuses to encrypt another record.
Exhausted(c) == c.write_seq >= SeqSpace

\* CommonState::eager_send_some_plaintext and eager_send_close_notify, as
\* MayEncryptAppData::encrypt and queue_close_notify call them: report the
\* size the record `rec` needs if `out` is too small for it, refuse with
\* EncryptExhausted if the sequence space is exhausted, else write the
\* record into `out` and use up one sequence number.  A failure leaves
\* `out` and the connection as they were.  (`required` of the guard
\* remembers the size last reported, as for encode.)
eager_send(g, c, rec, out) ==
    IF TooSmall(Len(rec), out)
    THEN [ret |-> InsufficientSize(Len(rec), Len(out)),
          guard |-> [g EXCEPT !.required = Len(rec)],
          conn |-> c, out |-> out]
    ELSE IF Exhausted(c)
    THEN [ret |-> EncryptExhausted(Len(out)), guard |-> g, conn |-> c,
          out |-> out]
    ELSE [ret |-> RetOk(Len(rec), Len(out)), guard |-> g,
          conn |-> [c EXCEPT !.write_seq = @ + 1],
          out |-> rec \o SubSeq(out, Len(rec) + 1, Len(out))]

\* encrypt that sets wants_write when it has written a record (a mutant).
encrypt_RaisesWantsWrite(g, c, application_data, out) ==
    LET r == eager_send(g, c, Encrypted(application_data), out)
    IN  [r EXCEPT !.conn.wants_write = @ \/ r.ret.kind = "Ok"]

\* MayEncryptAppData::encrypt.
encrypt(g, c, application_data, out) ==
    eager_send(g, c, Encrypted(application_data), out)

\* queue_close_notify that sets wants_write when it has written the alert (a
\* mutant).
queue_close_notify_RaisesWantsWrite(g, c, out) ==
    LET r == eager_send(g, c, CloseNotifyRecord, out)
    IN  [r EXCEPT !.conn.wants_write = @ \/ r.ret.kind = "Ok"]

\* MayEncryptAppData::queue_close_notify.
queue_close_notify(g, c, out) ==
    eager_send(g, c, CloseNotifyRecord, out)

\* An AppDataRecord, as next_record returns it in Some(Ok(..)): `n` is the
\* size of the payload.
AppDataRecord(discard, payload) ==
    [kind |-> "Some", n |-> Len(payload), len |-> 0,
     discard |-> discard, payload |-> payload]

\* next_record that does not remember that its record was taken (a mutant).
next_record_Again(g) ==
    IF g.taken
    THEN [ret |-> NoRet, guard |-> g]
    ELSE [ret |-> AppDataRecord(0, g.chunk[1]), guard |-> g]

\* next_record whose record asks for its payload to be discarded on top of
\* the discard of the status (a mutant).
next_record_ExtraDiscard(g) ==
    IF g.taken
    THEN [ret |-> NoRet, guard |-> g]
    ELSE [ret |-> AppDataRecord(Len(g.chunk[1]), g.chunk[1]),
          guard |-> [g EXCEPT !.taken = TRUE]]

\* AppDataAvailable::next_record and EarlyDataAvailable::next_record: the
\* record, once; the payload of the record is the guard's chunk, its
\* discard is 0.
next_record(g) ==
    IF g.taken
    THEN [ret |-> NoRet, guard |-> g]
    ELSE [ret |-> AppDataRecord(0, g.chunk[1]),
          guard |-> [g EXCEPT !.taken = TRUE]]

\* AppDataAvailable::peek_len and EarlyDataAvailable::peek_len: the size of
\* the payload next_record would give; NonZeroUsize::new gives None for 0.
peek_len(g) ==
    IF g.taken \/ Len(g.chunk[1]) = 0
    THEN NoRet
    ELSE [kind |-> "Some", n |-> Len(g.chunk[1]), len |-> 0]

\* ------------------------------------------------------------ the caller

\* What a failed assert! or unwrap leaves: the caller has panicked.
Panic == [panic |-> TRUE]

RECURSIVE DropBytes(_, _, _)
\* Buffer::discard of the caller, on an incoming buffer that holds the
\* complete records `recs` and `tail` more bytes: nothing for n = 0, a
\* panic if n is more than the buffer holds, else the buffer without its
\* first n bytes.  A cut inside a record leaves bytes that are no longer
\* the records they were: they are counted in `tail`.
DropBytes(recs, tail, n) ==
    IF n = 0 THEN [recs |-> recs, tail |-> tail]
    ELSE IF n > SumLen(recs) + tail THEN Panic
    ELSE IF recs # <<>> /\ n >= Head(recs).len
    THEN DropBytes(Tail(recs), tail, n - Head(recs).len)
    ELSE [recs |-> <<>>, tail |-> SumLen(recs) + tail - n]

\* Length in bytes of the incoming buffer.
BufLen(recs, tail) == SumLen(recs) + tail

\* No handshake of a pair of connections is going on.
NoHandshake == [pc |-> "none"]

\* ---------------------------------------------------------- the actions

\* The caller holds no status: it has not advanced yet, or it has handled
\* the last status and discarded what that status told it to.
Idle == op \in {"new", "discard"}

Init ==
    /\ conn \in {NewConnection(role) : role \in {"client", "server"}}
    /\ incoming = <<>>
    /\ partial = 0
    /\ outgoing = <<>>
    /\ status = NoStatus
    /\ guard = NoGuard
    /\ op = "new"
    /\ ret = NoRet
    /\ adv = NoTrace
    /\ hs = NoHandshake

\* The peer's bytes arrive: a complete record is now in the incoming buffer
\* (the rest of the partial one, if one was there).
ReceiveRecord ==
    /\ Idle
    /\ Len(incoming) < MaxBuf
    /\ \E r \in MsgSet :
        /\ r.len > partial
        /\ incoming' = Append(incoming, r)
    /\ partial' = 0
    /\ UNCHANGED <<conn, outgoing, status, guard, op, ret, adv, hs>>

\* The first bytes of a record arrive.
ReceivePartial ==
    /\ Idle
    /\ partial < MaxPartial
    /\ partial' = partial + 1
    /\ UNCHANGED <<conn, incoming, outgoing, status, guard, op, ret, adv, hs>>

\* The caller advances the connection: process_tls_records on the whole
\* incoming buffer.
Advance ==
    /\ Idle
    /\ LET r == process_tls_records(conn, incoming, partial, adv.prev)
       IN  /\ conn' = r.conn
           /\ status' = [discard |-> r.discard, state |-> r.state,
                         err |-> r.err]
           /\ guard' = NewGuard(r.state, r.chunk)
           /\ adv' = r.trace
    /\ op' = "process_tls_records"
    /\ ret' = NoRet
    /\ UNCHANGED <<incoming, partial, outgoing, hs>>

\* The caller is done with the status: it drops the status with its guard
\* and removes the bytes the status told it to discard from the front of
\* its incoming buffer (which panics if the buffer holds fewer).  The
\* outgoing slice is not touched.  The history keeps the error of the
\* status, if it was one, for the advance that follows.
Discard ==
    /\ ~Idle
    /\ op # "panic"
    /\ LET b == DropBytes(incoming, partial, status.discard)
       IN  IF b = Panic
           THEN /\ op' = "panic"
                /\ UNCHANGED <<incoming, partial>>
           ELSE /\ op' = "discard"
                /\ incoming' = b.recs
                /\ partial' = b.tail
    /\ status' = NoStatus
    /\ guard' = NoGuard
    /\ ret' = NoRet
    /\ adv' = [NoTrace EXCEPT !.prev =
                    IF status.state = "Err"
                    THEN [status EXCEPT !.discard = 0]
                    ELSE NoStatus]
    /\ UNCHANGED <<conn, outgoing, hs>>

\* The caller calls encode on a MustEncodeTlsData guard with a slice of n
\* bytes.
Encode ==
    /\ guard.kind = "MustEncodeTlsData"
    /\ \E n \in 0..OutCap :
        LET r == encode(guard, conn, Blank(n))
        IN  /\ ret' = r.ret
            /\ guard' = r.guard
            /\ conn' = r.conn
            /\ outgoing' = r.out
    /\ op' = "encode"
    /\ UNCHANGED <<incoming, partial, status, adv, hs>>

\* The caller calls done on a MustTransmitTlsData guard.
Done ==
    /\ guard.kind = "MustTransmitTlsData"
    /\ conn' = done(conn)
    /\ guard' = NoGuard
    /\ op' = "done"
    /\ ret' = NoRet
    /\ UNCHANGED <<incoming, partial, outgoing, status, adv, hs>>

\* The caller probes a MustTransmitTlsData guard for an encrypting guard.
MayEncryptAppData ==
    /\ guard.kind = "MustTransmitTlsData"
    /\ op' = "may_encrypt_app_data"
    /\ ret' = [NoRet EXCEPT
                !.kind = IF may_encrypt_app_data(conn) THEN "Some" ELSE "None"]
    /\ UNCHANGED <<conn, incoming, partial, outgoing, status, guard, adv, hs>>

\* Whether the caller holds a MayEncryptAppData guard: the one of
\* TrafficTransit, or the one may_encrypt_app_data gives.
HoldsMayEncryptAppData ==
    \/ guard.kind = "TrafficTransit"
    \/ guard.kind = "MustTransmitTlsData" /\ may_encrypt_app_data(conn)

\* The caller encrypts application data into a slice of n bytes.
Encrypt ==
    /\ HoldsMayEncryptAppData
    /\ \E n \in 0..OutCap, data \in PlainSet :
        LET r == encrypt(guard, conn, data, Blank(n))
        IN  /\ ret' = r.ret
            /\ guard' = r.guard
            /\ conn' = r.conn
            /\ outgoing' = r.out
    /\ op' = "encrypt"
    /\ UNCHANGED <<incoming, partial, status, adv, hs>>

\* The caller writes a close_notify alert into a slice of n bytes.
QueueCloseNotify ==
    /\ HoldsMayEncryptAppData
    /\ \E n \in 0..OutCap :
        LET r == queue_close_notify(guard, conn, Blank(n))
        IN  /\ ret' = r.ret
            /\ guard' = r.guard
            /\ conn' = r.conn
            /\ outgoing' = r.out
    /\ op' = "queue_close_notify"
    /\ UNCHANGED <<incoming, partial, status, adv, hs>>

\* The caller takes the record of an AppDataAvailable or EarlyDataAvailable
\* guard.
NextRecord ==
    /\ guard.kind \in {"AppDataAvailable", "EarlyDataAvailable"}
    /\ ret' = next_record(guard).ret
    /\ guard' = next_record(guard).guard
    /\ op' = "next_record"
    /\ UNCHANGED <<conn, incoming, partial, outgoing, status, adv, hs>>

\* The caller asks such a guard for the size of its record.
PeekLen ==
    /\ guard.kind \in {"AppDataAvailable", "EarlyDataAvailable"}
    /\ ret' = peek_len(guard)
    /\ op' = "peek_len"
    /\ UNCHANGED <<conn, incoming, partial, outgoing, status, guard, adv, hs>>

Next ==
    \/ ReceiveRecord
    \/ ReceivePartial
    \/ Advance
    \/ Discard
    \/ Encode
    \/ Done
    \/ MayEncryptAppData
    \/ Encrypt
    \/ QueueCloseNotify
    \/ NextRecord
    \/ PeekLen

Spec == Init /\ [][Next]_vars

\* ============================================== a handshake in lock step

\* Size of a caller's outgoing buffer in the handshake (Buffer::default),
\* scaled to the one-byte messages of the model.
HsBufSize == 8

\* The handshake messages, each a chunk of one byte that tells which
\* message it is.
ServerHello == <<2>>

NewSessionTicket == <<4>>

EncryptedExtensions == <<8>>

Certificate == <<11>>

ServerKeyExchange == <<12>>

ServerHelloDone == <<14>>

CertificateVerify == <<15>>

ClientKeyExchange == <<16>>

Finished == <<20>>

ChangeCipherSpec == <<21>>

\* Tickets a TLS 1.3 server sends after the handshake.
Tickets == <<NewSessionTicket, NewSessionTicket, NewSessionTicket,
             NewSessionTicket>>

\* The handshake engine as a table: the messages the engine of `role`
\* queues when it is fed `msg` in a full handshake of `version`, and
\* whether the message lets it send application data from then on.
Flight(version, role, msg) ==
    LET answer(out, traffic) == [out |-> out, traffic |-> traffic]
    IN  CASE version = "TLS13" /\ role = "server" /\ msg = ClientHello ->
               answer(<<ServerHello, ChangeCipherSpec, EncryptedExtensions,
                        Certificate, CertificateVerify, Finished>>, FALSE)
          [] version = "TLS13" /\ role = "server" /\ msg = Finished ->
               answer(Tickets, TRUE)
          [] version = "TLS13" /\ role = "client" /\ msg = ServerHello ->
               answer(<<ChangeCipherSpec>>, FALSE)
          [] version = "TLS13" /\ role = "client" /\ msg = Finished ->
               answer(<<Finished>>, TRUE)
          [] version = "TLS12" /\ role = "server" /\ msg = ClientHello ->
               answer(<<ServerHello, Certificate, ServerKeyExchange,
                        ServerHelloDone>>, FALSE)
          [] version = "TLS12" /\ role = "server" /\ msg = Finished ->
               answer(<<ChangeCipherSpec, Finished>>, TRUE)
          [] version = "TLS12" /\ role = "client" /\ msg = ServerHelloDone ->
               answer(<<ClientKeyExchange, ChangeCipherSpec, Finished>>,
                      FALSE)
          [] version = "TLS12" /\ role = "client" /\ msg = Finished ->
               answer(<<>>, TRUE)
          [] OTHER -> answer(<<>>, FALSE)

\* The message that ends a client's early data.
EndOfEarlyData == <<5>>

\* The handshake engine of a TLS 1.3 connection that resumes a session with
\* a ticket and offers early data: the server answers the ClientHello
\* without certificate, the client ends its early data before its
\* Finished.
ResumedFlight(role, msg) ==
    LET answer(out, traffic) == [out |-> out, traffic |-> traffic]
    IN  CASE role = "server" /\ msg = ClientHello ->
               answer(<<ServerHello, ChangeCipherSpec, EncryptedExtensions,
                        Finished>>, FALSE)
          [] role = "server" /\ msg = Finished -> answer(Tickets, TRUE)
          [] role = "client" /\ msg = ServerHello ->
               answer(<<ChangeCipherSpec>>, FALSE)
          [] role = "client" /\ msg = Finished ->
               answer(<<EndOfEarlyData, Finished>>, TRUE)
          [] OTHER -> answer(<<>>, FALSE)

RECURSIVE Deframed(_, _, _, _)
\* The records the deframer of `role` finds in the bytes `bytes` the peer
\* sent, on a connection of `version` that resumes a session or not: a
\* record under the traffic key is two bytes, a close_notify alert or
\* application data whose payload is the second byte decrypted; a record
\* under the early traffic key is early data; every other byte is a
\* handshake message.  `len` is the number of bytes of the record, `msg`
\* keeps the message of a handshake record.
Deframed(version, resumed, role, bytes) ==
    IF bytes = <<>> THEN <<>>
    ELSE IF Head(bytes) \in {9, 10} /\ Len(bytes) >= 2
    THEN LET body == <<bytes[2] - 10>>
             rec == IF Head(bytes) = 10
                    THEN Rec("early_data", <<body>>, <<>>, FALSE)
                    ELSE IF SubSeq(bytes, 1, 2) = CloseNotifyRecord
                    THEN Rec("close_notify", <<>>, <<>>, FALSE)
                    ELSE Rec("application_data", <<body>>, <<>>, FALSE)
         IN  <<[rec EXCEPT !.len = 2] @@ [msg |-> <<>>]>>
                \o Deframed(version, resumed, role,
                            SubSeq(bytes, 3, Len(bytes)))
    ELSE LET msg == <<Head(bytes)>>
             f == IF resumed THEN ResumedFlight(role, msg)
                  ELSE Flight(version, role, msg)
         IN  <<[Rec("handshake", <<>>, f.out, f.traffic) EXCEPT !.len = 1]
                    @@ [msg |-> msg]>>
                \o Deframed(version, resumed, role, Tail(bytes))

\* The records the deframer of `role` finds in the bytes of a full
\* handshake: one handshake record for each message.
Records(version, role, bytes) == Deframed(version, FALSE, role, bytes)

\* The peer of a side.
Peer(side) == IF side = "client" THEN "server" ELSE "client"

\* Buffer::default: vec![0; 16 * 1024], scaled to HsBufSize bytes, none of
\* them used.
Buffer == [inner |-> Blank(HsBufSize), used |-> 0]

\* Buffer::filled: the bytes in use.
filled(b) == SubSeq(b.inner, 1, b.used)

\* Buffer::unfilled: the rest of the vector, with whatever bytes were left
\* there.
unfilled(b) == SubSeq(b.inner, b.used + 1, Len(b.inner))

\* Buffer::advance.
advance(b, num_bytes) == [b EXCEPT !.used = @ + num_bytes]

\* Buffer::append: the bytes are copied to the start of the unfilled part
\* (a panic if they do not fit), then count as used.
append(b, bytes) ==
    IF Len(bytes) > Len(unfilled(b)) THEN Panic
    ELSE advance([b EXCEPT !.inner =
                    filled(b) \o bytes
                        \o SubSeq(b.inner, b.used + Len(bytes) + 1,
                                  Len(b.inner))],
                 Len(bytes))

\* Buffer::clear.
clear(b) == [b EXCEPT !.used = 0]

\* Buffer::discard: nothing for 0; else the bytes after the first `n` in
\* use are copied to the front (copy_within) and `used` shrinks by n; the
\* bytes behind stay as they are.  More than is in use is a panic.
discard(b, n) ==
    IF n = 0 THEN b
    ELSE IF n > b.used THEN Panic
    ELSE [inner |-> SubSeq(b.inner, n + 1, b.used)
                        \o SubSeq(b.inner, b.used - n + 1, Len(b.inner)),
          used |-> b.used - n]

\* Buffers::default.
Buffers == [incoming |-> Buffer, outgoing |-> Buffer]

\* Most rounds of the loop of handshake() and of a test.
MAX_ITERATIONS == 100

\* make_connection_pair and BothBuffers::default, at the start of the
\* first round of handshake(), no round counted yet.
make_connection_pair(version) ==
    [pc |-> "advance", version |-> version, turn |-> "client",
     conn |-> [client |-> NewConnection("client"),
               server |-> NewConnection("server")],
     buffers |-> [client |-> Buffers, server |-> Buffers],
     status |-> NoStatus, guard |-> NoGuard, required |-> 0,
     resumed |-> FALSE, count |-> 0,
     transcript |-> [client |-> <<>>, server |-> <<>>],
     handshake_done |-> [client |-> FALSE, server |-> FALSE]]

\* BothBuffers::client_send and server_send: the bytes in use of the
\* outgoing buffer of `from` are appended to the incoming buffer of its
\* peer and the outgoing buffer is cleared; nothing happens if there are
\* none.
send(h, from) ==
    LET data == filled(h.buffers[from].outgoing)
        to == Peer(from)
    IN  IF Len(data) = 0 THEN h.buffers
        ELSE IF append(h.buffers[to].incoming, data) = Panic THEN Panic
        ELSE [h.buffers EXCEPT
                ![to].incoming = append(@, data),
                ![from].outgoing = clear(@)]

HsInit ==
    /\ hs \in {make_connection_pair(v) : v \in {"TLS12", "TLS13"}}
    /\ conn = NewConnection("client")
    /\ incoming = <<>>
    /\ partial = 0
    /\ outgoing = <<>>
    /\ status = NoStatus
    /\ guard = NoGuard
    /\ op = "new"
    /\ ret = NoRet
    /\ adv = NoTrace

\* advance_client / advance_server: process_tls_records on the incoming
\* buffer of the side whose turn it is; the status goes to the transcript.
\* An error makes the unwrap panic, before anything is added to the
\* transcript.
HsAdvance ==
    /\ hs.pc = "advance"
    /\ LET side == hs.turn
           r == process_tls_records(
                    hs.conn[side],
                    Deframed(hs.version, hs.resumed, side,
                             filled(hs.buffers[side].incoming)),
                    0, NoStatus)
       IN  /\ hs' = [hs EXCEPT
                !.pc = IF r.state = "Err" THEN "panic" ELSE "handle",
                !.conn[side] = r.conn,
                !.status = [discard |-> r.discard, state |-> r.state,
                            err |-> r.err],
                !.guard = NewGuard(r.state, r.chunk),
                !.transcript[side] =
                    IF r.state = "Err" THEN @ ELSE Append(@, r.state)]
    /\ UNCHANGED <<conn, incoming, partial, outgoing, status, guard, op, ret,
                   adv>>

\* write_with_buffer_size_checks, first call: encode into an empty slice
\* must fail and tell the size required.
HsProbe ==
    /\ hs.pc = "handle"
    /\ hs.status.state = "MustEncodeTlsData"
    /\ LET r == encode(hs.guard, hs.conn[hs.turn], <<>>)
       IN  /\ r.ret.kind = "InsufficientSize"
           /\ hs' = [hs EXCEPT !.pc = "write", !.guard = r.guard,
                               !.conn[hs.turn] = r.conn,
                               !.required = r.ret.n]
    /\ UNCHANGED <<conn, incoming, partial, outgoing, status, guard, op, ret,
                   adv>>

\* write_with_buffer_size_checks, second call: encode into the unfilled
\* part of the outgoing buffer must succeed and write the size required.
HsWrite ==
    /\ hs.pc = "write"
    /\ LET side == hs.turn
           b == hs.buffers[side].outgoing
           r == encode(hs.guard, hs.conn[side], unfilled(b))
       IN  /\ r.ret.kind = "Ok"
           /\ r.ret.n = hs.required
           /\ hs' = [hs EXCEPT
                !.pc = "finish", !.guard = r.guard,
                !.conn[side] = r.conn,
                !.buffers[side].outgoing =
                    advance([b EXCEPT !.inner = filled(b) \o r.out],
                            r.ret.n)]
    /\ UNCHANGED <<conn, incoming, partial, outgoing, status, guard, op, ret,
                   adv>>

\* handle_state on MustTransmitTlsData without actions: done.
HsDone ==
    /\ hs.pc = "handle"
    /\ hs.status.state = "MustTransmitTlsData"
    /\ hs' = [hs EXCEPT !.pc = "finish", !.guard = NoGuard,
                        !.conn[hs.turn] = done(hs.conn[hs.turn])]
    /\ UNCHANGED <<conn, incoming, partial, outgoing, status, guard, op, ret,
                   adv>>

\* handle_state on NeedsMoreTlsData, on TrafficTransit without actions and
\* on ConnectionClosed: nothing to do.  On AppDataAvailable, and in
\* advance_server on EarlyDataAvailable, the records of the guard are
\* taken, which leaves the connection as it is.
HsNothing ==
    /\ hs.pc = "handle"
    /\ hs.status.state \in {"NeedsMoreTlsData", "TrafficTransit",
                            "ConnectionClosed", "AppDataAvailable",
                            "EarlyDataAvailable"}
    /\ hs' = [hs EXCEPT !.pc = "finish", !.guard = NoGuard]
    /\ UNCHANGED <<conn, incoming, partial, outgoing, status, guard, op, ret,
                   adv>>

\* The end of a turn: the side discards what the status told it to, then
\* handshake() moves bytes: on MustTransmitTlsData the side's own outgoing
\* bytes go to its peer, on NeedsMoreTlsData the peer's go to the side; on
\* TrafficTransit the side's handshake is done; any other State but
\* EncodedTlsData is a panic (unreachable!).  After the server's turn the
\* round is counted, more than MAX_ITERATIONS rounds are a panic, and the
\* rounds end with both handshakes done.
HsTurn ==
    /\ hs.pc = "finish"
    /\ LET side == hs.turn
           state == hs.status.state
           rest == discard(hs.buffers[side].incoming, hs.status.discard)
           h1 == [hs EXCEPT !.buffers[side].incoming = rest]
           b2 == CASE rest = Panic -> Panic
                   [] state = "MustTransmitTlsData" -> send(h1, side)
                   [] state = "NeedsMoreTlsData" -> send(h1, Peer(side))
                   [] OTHER -> h1.buffers
           d2 == [hs.handshake_done EXCEPT
                    ![side] = @ \/ state = "TrafficTransit"]
           count == IF side = "server" THEN hs.count + 1 ELSE hs.count
       IN  IF b2 = Panic
           THEN hs' = [hs EXCEPT !.pc = "panic"]
           ELSE IF state \notin {"MustEncodeTlsData", "MustTransmitTlsData",
                                 "NeedsMoreTlsData", "TrafficTransit"}
           THEN hs' = [hs EXCEPT !.buffers = b2, !.pc = "panic"]
           ELSE hs' = [hs EXCEPT
                !.buffers = b2,
                !.handshake_done = d2,
                !.count = count,
                !.status = NoStatus, !.guard = NoGuard, !.required = 0,
                !.turn = Peer(side),
                !.pc = IF side = "client" THEN "advance"
                       ELSE IF count > MAX_ITERATIONS THEN "panic"
                       ELSE IF d2.client /\ d2.server THEN "end"
                       ELSE "advance"]
    /\ UNCHANGED <<conn, incoming, partial, outgoing, status, guard, op, ret,
                   adv>>

HsNext ==
    \/ HsAdvance
    \/ HsProbe
    \/ HsWrite
    \/ HsDone
    \/ HsNothing
    \/ HsTurn

HandshakeSpec == HsInit /\ [][HsNext]_vars

\* ------------------------------------------- the tests with application
\* actions: a pair of connections driven in lock step, one side sending
\* application data, a close_notify alert or early data

\* The payload the tests send (b"hello", scaled to one byte).
expected == <<7>>

\* The record the record layer writes for early data: a header byte that
\* tells the early traffic key, and the encrypted payload.
EarlyEncrypted(data) == <<10>> \o [i \in 1..Len(data) |-> data[i] + 10]

\* Actions and NO_ACTIONS.
Actions(app_data, early_data, close_notify) ==
    [app_data_to_send |-> app_data, early_data_to_send |-> early_data,
     send_close_notify |-> close_notify]

NO_ACTIONS == Actions(None, None, FALSE)

\* The five tests, and the side of each that has something to send.
Tests ==
    {"app_data_client_to_server", "app_data_server_to_client",
     "close_notify_client_to_server", "close_notify_server_to_client",
     "early_data"}

Sender(test) ==
    IF test \in {"app_data_server_to_client", "close_notify_server_to_client"}
    THEN "server" ELSE "client"

\* The actions a test starts with.
TestActions(test) ==
    LET a == CASE test \in {"app_data_client_to_server",
                            "app_data_server_to_client"} ->
                    Actions(Some(expected), None, FALSE)
               [] test \in {"close_notify_client_to_server",
                            "close_notify_server_to_client"} ->
                    Actions(None, None, TRUE)
               [] OTHER -> Actions(None, Some(expected), FALSE)
    IN  [side \in {"client", "server"} |->
            IF side = Sender(test) THEN a ELSE NO_ACTIONS]

\* What a side has sent while it handled a status (the flags of State).
NoSent ==
    [sent_app_data |-> FALSE, sent_close_notify |-> FALSE,
     sent_early_data |-> FALSE]

\* The start of the loop of a test: a fresh pair of connections and
\* buffers; `ticket` tells whether the client's configuration has a ticket
\* of a connection before.
connection(test, version, conn_count, ticket) ==
    [make_connection_pair(version) EXCEPT !.resumed = ticket] @@
    [test |-> test, conn_count |-> conn_count,
     ticket |-> ticket, actions |-> TestActions(test), sent |-> NoSent,
     received_app_data |-> <<>>, received_early_data |-> <<>>,
     reached_connection_closed_state |-> FALSE]

\* MustTransmitTlsData::may_encrypt_early_data: a guard iff the client has
\* not completed the handshake, early data is enabled and a ticket permits
\* it.
may_encrypt_early_data(c, enable_early_data, ticket) ==
    /\ c.role = "client"
    /\ ~c.may_send_application_data
    /\ enable_early_data
    /\ ticket

\* MayEncryptEarlyData::encrypt.
encrypt_early_data(g, c, early_data, out) ==
    eager_send(g, c, EarlyEncrypted(early_data), out)

\* write_with_buffer_size_checks on the outgoing buffer `b`, after
\* the steps `w` of the handler: `probe` is what the operation of the guard
\* gives on an empty slice, which must be a failure that tells the size
\* required; `r` is what it gives on the unfilled part, which must be a
\* success that has written that size.
write_with_buffer_size_checks(probe, r, b, w) ==
    LET ok == /\ w.ok
              /\ probe.ret.kind = "InsufficientSize"
              /\ r.ret.kind = "Ok"
              /\ r.ret.n = probe.ret.n
    IN  [ok |-> ok,
         conn |-> r.conn,
         outgoing |-> IF ok
                      THEN advance([b EXCEPT !.inner = filled(b) \o r.out],
                                   r.ret.n)
                      ELSE b]

\* AppDataAvailable / EarlyDataAvailable: the payloads the loop
\* `while let Some(res) = state.next_record()` collects.
RECURSIVE next_records(_)
next_records(g) ==
    LET r == next_record(g)
    IN  IF r.ret.kind = "Some"
        THEN <<g.chunk[1]>> \o next_records(r.guard)
        ELSE <<>>

\* BothBuffers::client_send and server_send in a test.
transmit(h, from) == send(h, from)

\* The flag of State that tells a test's sender has sent.
Flag(test) ==
    CASE test \in {"app_data_client_to_server",
                   "app_data_server_to_client"} -> "sent_app_data"
      [] test \in {"close_notify_client_to_server",
                   "close_notify_server_to_client"} -> "sent_close_notify"
      [] OTHER -> "sent_early_data"

\* The arms of the match of a test on the State of `side`: every other
\* State is unreachable!().
Expected(test, side, state, sent) ==
    LET own == side = Sender(test)
        none == sent = NoSent
        only_own == [sent EXCEPT ![Flag(test)] = FALSE] = NoSent
    IN  CASE state \in {"MustEncodeTlsData", "NeedsMoreTlsData"} -> TRUE
          [] state = "MustTransmitTlsData" ->
               IF own THEN only_own ELSE none
          [] state = "TrafficTransit" ->
               IF own /\ side = "client" /\ test # "early_data"
               THEN only_own ELSE none
          [] state = "AppDataAvailable" ->
               \/ test = "app_data_client_to_server" /\ side = "server"
               \/ test = "app_data_server_to_client"
          [] state = "ConnectionClosed" ->
               /\ test \in {"close_notify_client_to_server",
                            "close_notify_server_to_client"}
               /\ side # Sender(test)
          [] state = "EarlyDataAvailable" ->
               test = "early_data" /\ side = "server"
          [] OTHER -> FALSE

\* The assertions of a test after its loop.
Passed(h) ==
    LET a == h.actions[Sender(h.test)]
    IN  CASE h.test \in {"app_data_client_to_server",
                         "app_data_server_to_client"} ->
               /\ a.app_data_to_send = None
               /\ h.received_app_data = <<expected>>
          [] h.test \in {"close_notify_client_to_server",
                         "close_notify_server_to_client"} ->
               /\ ~a.send_close_notify
               /\ h.reached_connection_closed_state
          [] OTHER ->
               h.conn_count = 1
                   => /\ a.early_data_to_send = None
                      /\ h.received_early_data = <<expected>>

TestsInit ==
    /\ hs \in {connection(t, v, 0, FALSE) :
                 t \in Tests \ {"early_data"}, v \in {"TLS12", "TLS13"}}
              \cup {connection("early_data", "TLS13", 0, FALSE)}
    /\ conn = NewConnection("client")
    /\ incoming = <<>>
    /\ partial = 0
    /\ outgoing = <<>>
    /\ status = NoStatus
    /\ guard = NoGuard
    /\ op = "new"
    /\ ret = NoRet
    /\ adv = NoTrace

\* MustTransmitTlsData: advance_client encrypts the early data if it has
\* some to send and may_encrypt_early_data gives a guard; handle_state (the
\* server) encrypts the application data and writes the close_notify if it
\* has them to send and may_encrypt_app_data gives a guard; then done.
TestTransmit ==
    /\ hs.pc = "handle"
    /\ hs.status.state = "MustTransmitTlsData"
    /\ LET side == hs.turn
           a == hs.actions[side]
           early == /\ side = "client"
                    /\ a.early_data_to_send # None
                    /\ may_encrypt_early_data(hs.conn[side], TRUE, hs.ticket)
           app == /\ side = "server"
                  /\ a.app_data_to_send # None
                  /\ may_encrypt_app_data(hs.conn[side])
           close == /\ side = "server"
                    /\ may_encrypt_app_data(hs.conn[side])
                    /\ a.send_close_notify
           w0 == [ok |-> TRUE, conn |-> hs.conn[side],
                  outgoing |-> hs.buffers[side].outgoing]
           w1 == IF ~early THEN w0
                 ELSE write_with_buffer_size_checks(
                        encrypt_early_data(hs.guard, w0.conn,
                            a.early_data_to_send[1], <<>>),
                        encrypt_early_data(hs.guard, w0.conn,
                            a.early_data_to_send[1], unfilled(w0.outgoing)),
                        w0.outgoing, w0)
           w2 == IF ~app THEN w1
                 ELSE write_with_buffer_size_checks(
                        encrypt(hs.guard, w1.conn, a.app_data_to_send[1],
                                <<>>),
                        encrypt(hs.guard, w1.conn, a.app_data_to_send[1],
                                unfilled(w1.outgoing)),
                        w1.outgoing, w1)
           w3 == IF ~close THEN w2
                 ELSE write_with_buffer_size_checks(
                        queue_close_notify(hs.guard, w2.conn, <<>>),
                        queue_close_notify(hs.guard, w2.conn,
                                           unfilled(w2.outgoing)),
                        w2.outgoing, w2)
       IN  hs' = [hs EXCEPT
                !.pc = IF w3.ok THEN "finish" ELSE "panic",
                !.guard = NoGuard,
                !.conn[side] = done(w3.conn),
                !.buffers[side].outgoing = w3.outgoing,
                !.sent = [sent_app_data |-> app, sent_close_notify |-> close,
                          sent_early_data |-> early]]
    /\ UNCHANGED <<conn, incoming, partial, outgoing, status, guard, op, ret,
                   adv>>

\* handle_state on TrafficTransit: encrypt the application data and write
\* the close_notify, if the side has them to send.
TestTrafficTransit ==
    /\ hs.pc = "handle"
    /\ hs.status.state = "TrafficTransit"
    /\ LET side == hs.turn
           a == hs.actions[side]
           app == a.app_data_to_send # None
           close == a.send_close_notify
           w0 == [ok |-> TRUE, conn |-> hs.conn[side],
                  outgoing |-> hs.buffers[side].outgoing]
           w1 == IF ~app THEN w0
                 ELSE write_with_buffer_size_checks(
                        encrypt(hs.guard, w0.conn, a.app_data_to_send[1],
                                <<>>),
                        encrypt(hs.guard, w0.conn, a.app_data_to_send[1],
                                unfilled(w0.outgoing)),
                        w0.outgoing, w0)
           w2 == IF ~close THEN w1
                 ELSE write_with_buffer_size_checks(
                        queue_close_notify(hs.guard, w1.conn, <<>>),
                        queue_close_notify(hs.guard, w1.conn,
                                           unfilled(w1.outgoing)),
                        w1.outgoing, w1)
       IN  hs' = [hs EXCEPT
                !.pc = IF w2.ok THEN "finish" ELSE "panic",
                !.guard = NoGuard,
                !.conn[side] = w2.conn,
                !.buffers[side].outgoing = w2.outgoing,
                !.sent = [NoSent EXCEPT !.sent_app_data = app,
                                        !.sent_close_notify = close]]
    /\ UNCHANGED <<conn, incoming, partial, outgoing, status, guard, op, ret,
                   adv>>

\* handle_state on NeedsMoreTlsData and ConnectionClosed: nothing to do.
TestNothing ==
    /\ hs.pc = "handle"
    /\ hs.status.state \in {"NeedsMoreTlsData", "ConnectionClosed"}
    /\ hs' = [hs EXCEPT !.pc = "finish", !.guard = NoGuard]
    /\ UNCHANGED <<conn, incoming, partial, outgoing, status, guard, op, ret,
                   adv>>

\* handle_state on AppDataAvailable and advance_server on
\* EarlyDataAvailable: take the records of the guard; the test adds them
\* to those it has received.
TestReceived ==
    /\ hs.pc = "handle"
    /\ hs.status.state \in {"AppDataAvailable", "EarlyDataAvailable"}
    /\ LET records == next_records(hs.guard)
       IN  hs' = [hs EXCEPT
                !.pc = "finish", !.guard = NoGuard,
                !.received_app_data =
                    IF hs.status.state = "AppDataAvailable"
                    THEN @ \o records ELSE @,
                !.received_early_data =
                    IF hs.status.state = "EarlyDataAvailable"
                    THEN @ \o records ELSE @]
    /\ UNCHANGED <<conn, incoming, partial, outgoing, status, guard, op, ret,
                   adv>>

\* The end of a turn: the side discards what the status told it to, and
\* the test matches on the State: it moves the bytes (the side's own on
\* MustTransmitTlsData, and on TrafficTransit if the side has just sent;
\* the peer's on NeedsMoreTlsData), forgets the action that was carried
\* out, and notes a handshake done on TrafficTransit and ConnectionClosed.
\* A State the test does not expect is a panic.  After the server's turn
\* the round is counted and the loop ends once both handshakes are done;
\* then the test's assertions are made.  A client that has consumed a
\* NewSessionTicket has a ticket from then on.
TestTurn ==
    /\ hs.pc = "finish"
    /\ LET side == hs.turn
           state == hs.status.state
           inc == hs.buffers[side].incoming
           rest == discard(inc, hs.status.discard)
           consumed == Deframed(hs.version, hs.resumed, side,
                                SubSeq(filled(inc), 1, hs.status.discard))
           h1 == [hs EXCEPT !.buffers[side].incoming = rest]
           wrote == hs.sent.sent_app_data \/ hs.sent.sent_close_notify
           b2 == CASE rest = Panic -> Panic
                   [] state = "MustTransmitTlsData" -> transmit(h1, side)
                   [] state = "NeedsMoreTlsData" -> transmit(h1, Peer(side))
                   [] state = "TrafficTransit" /\ wrote -> transmit(h1, side)
                   [] OTHER -> h1.buffers
           a2 == IF state \in {"MustTransmitTlsData", "TrafficTransit"}
                 THEN [hs.actions EXCEPT
                        ![side].app_data_to_send =
                            IF hs.sent.sent_app_data THEN None ELSE @,
                        ![side].send_close_notify =
                            IF hs.sent.sent_close_notify THEN FALSE ELSE @,
                        ![side].early_data_to_send =
                            IF hs.sent.sent_early_data THEN None ELSE @]
                 ELSE hs.actions
           d2 == [hs.handshake_done EXCEPT
                    ![side] = @ \/ state \in {"TrafficTransit",
                                              "ConnectionClosed"}]
           count == IF side = "server" THEN hs.count + 1 ELSE hs.count
           h2 == [hs EXCEPT
                    !.buffers = IF b2 = Panic THEN hs.buffers ELSE b2,
                    !.actions = a2,
                    !.handshake_done = d2,
                    !.reached_connection_closed_state =
                        @ \/ state = "ConnectionClosed",
                    !.ticket = @ \/ (side = "client" /\ \E i \in
                        1..Len(consumed) :
                            consumed[i].msg = NewSessionTicket),
                    !.count = count,
                    !.status = NoStatus, !.guard = NoGuard, !.required = 0,
                    !.sent = NoSent,
                    !.turn = Peer(side)]
       IN  hs' = [h2 EXCEPT !.pc =
                IF b2 = Panic THEN "panic"
                ELSE IF ~Expected(hs.test, side, state, hs.sent) THEN "panic"
                ELSE IF side = "client" THEN "advance"
                ELSE IF count > MAX_ITERATIONS THEN "panic"
                ELSE IF ~(d2.client /\ d2.server) THEN "advance"
                ELSE IF Passed(h2) THEN "end"
                ELSE "panic"]
    /\ UNCHANGED <<conn, incoming, partial, outgoing, status, guard, op, ret,
                   adv>>

\* early_data, the next turn of `for conn_count in 0..2`: a fresh pair of
\* connections of the same configurations, the client's with the tickets
\* it has stored.
TestReconnect ==
    /\ hs.pc = "end"
    /\ hs.test = "early_data"
    /\ hs.conn_count = 0
    /\ hs' = connection(hs.test, hs.version, 1, hs.ticket)
    /\ UNCHANGED <<conn, incoming, partial, outgoing, status, guard, op, ret,
                   adv>>

TestsNext ==
    \/ HsAdvance
    \/ HsProbe
    \/ HsWrite
    \/ TestTransmit
    \/ TestTrafficTransit
    \/ TestNothing
    \/ TestReceived
    \/ TestTurn
    \/ TestReconnect

TestsSpec == TestsInit /\ [][TestsNext]_vars

\* =============================================================== claims

\* The state is the one an advance has just returned into.
Advanced == op = "process_tls_records"

\* The connection as it was when the last advance began.
Pre == adv.pre[1]

\* C1 (as claimed): once an advance has returned Err(E), every later advance
\* returns Err(E) too, whatever the buffer, the queues and the flags hold.
C1_StickyErrors ==
    (Advanced /\ adv.prev.state = "Err")
        => (status.state = "Err" /\ status.err = adv.prev.err)

\* C2 (as claimed): once has_received_close_notify is set, no advance
\* returns MustEncodeTlsData, MustTransmitTlsData, TrafficTransit or
\* NeedsMoreTlsData, AppDataAvailable is returned only for plaintext that
\* was pending, and no further record is handed to the engine.
C2_CloseNotifySticky ==
    (Advanced /\ Pre.has_received_close_notify)
        => /\ status.state \notin
                {"MustEncodeTlsData", "MustTransmitTlsData",
                 "TrafficTransit", "NeedsMoreTlsData"}
           /\ status.state = "AppDataAvailable"
                => Pre.received_plaintext # <<>>
           /\ adv.fed = <<>>

\* C3: while plaintext is pending on a connection that has received the
\* peer's close_notify, no advance returns ConnectionClosed, and a chunk
\* leaves the plaintext queue only as the chunk of an AppDataAvailable
\* status, head first.
C3_DrainBeforeClosed ==
    (Advanced /\ Pre.has_received_close_notify
        /\ Pre.received_plaintext # <<>>)
        => /\ status.state # "ConnectionClosed"
           /\ \/ conn.received_plaintext = Pre.received_plaintext
              \/ /\ status.state = "AppDataAvailable"
                 /\ guard.chunk = Some(Head(Pre.received_plaintext))
                 /\ conn.received_plaintext = Tail(Pre.received_plaintext)

\* C3 happens: an advance that began with has_received_close_notify set and
\* plaintext pending has handed out the last pending chunk.
C3_Witness ==
    /\ Advanced
    /\ Pre.has_received_close_notify
    /\ Pre.received_plaintext # <<>>
    /\ status.state = "AppDataAvailable"
    /\ conn.received_plaintext = <<>>

\* C4: an advance deframes a record only when the early-data queue, the
\* plaintext queue and the outbound queue are all empty; an advance that
\* begins with a non-empty outbound queue, no plaintext and no early data
\* returns MustEncodeTlsData with the head chunk and consumes nothing of
\* the incoming buffer.
C4_QueuesDrainedBeforeDeframe ==
    Advanced =>
        /\ adv.drained
        /\ (Pre.sendable_tls # <<>> /\ Pre.received_plaintext = <<>>
                /\ Pre.early_data = <<>>)
            => /\ status.state = "MustEncodeTlsData"
               /\ guard.chunk = Some(Head(Pre.sendable_tls))
               /\ conn.sendable_tls = Tail(Pre.sendable_tls)
               /\ status.discard = 0
               /\ adv.deframed = <<>>

\* C4 happens: MustEncodeTlsData is returned while a complete record waits
\* in the incoming buffer.
C4_Witness ==
    /\ Advanced
    /\ Pre.sendable_tls # <<>>
    /\ status.state = "MustEncodeTlsData"
    /\ incoming # <<>>
    /\ Head(incoming).kind # "malformed"

\* C5: an advance that begins with plaintext pending (and, on a server, no
\* early data pending) returns AppDataAvailable with the head chunk of the
\* plaintext queue, whatever else is pending.
C5_PlaintextFirst ==
    (Advanced /\ Pre.received_plaintext # <<>>
        /\ ~(Pre.role = "server" /\ Pre.early_data # <<>>))
        => /\ status.state = "AppDataAvailable"
           /\ guard.chunk = Some(Head(Pre.received_plaintext))
           /\ status.discard = 0

\* C5 happens: plaintext is handed out although an outbound chunk is
\* queued, wants_write and has_received_close_notify are set, and a
\* complete record waits in the incoming buffer.
C5_Witness ==
    /\ Advanced
    /\ Pre.received_plaintext # <<>>
    /\ status.state = "AppDataAvailable"
    /\ Pre.sendable_tls # <<>>
    /\ Pre.wants_write
    /\ Pre.has_received_close_notify
    /\ incoming # <<>>

\* C6: an advance that begins with empty queues and an incoming buffer
\* without a complete record returns MustTransmitTlsData if wants_write,
\* else ConnectionClosed if has_received_close_notify, else TrafficTransit
\* if may_send_application_data, else NeedsMoreTlsData.
C6_FallThroughTable ==
    (Advanced /\ QueuesEmpty(Pre) /\ incoming = <<>>)
        => LET w == Pre.wants_write
               k == Pre.has_received_close_notify
               m == Pre.may_send_application_data
           IN  /\ status.discard = 0
               /\ conn = Pre
               /\ w => status.state = "MustTransmitTlsData"
               /\ (~w /\ k) => status.state = "ConnectionClosed"
               /\ (~w /\ ~k /\ m) => status.state = "TrafficTransit"
               /\ (~w /\ ~k /\ ~m) => status.state = "NeedsMoreTlsData"

\* C6 happens: all three flags are set and only a partial record is in the
\* buffer.
C6_Witness ==
    /\ Advanced
    /\ QueuesEmpty(Pre)
    /\ incoming = <<>>
    /\ partial > 0
    /\ Pre.wants_write
    /\ Pre.has_received_close_notify
    /\ Pre.may_send_application_data
    /\ status.state = "MustTransmitTlsData"

\* The first k records of the incoming buffer.
Prefix(recs, k) == SubSeq(recs, 1, k)

\* C7 (as claimed): the records an advance deframes are the first records
\* of the incoming buffer, in order; each of them is fed to the engine; the
\* returned discard is their total length, so that the caller's discard
\* removes exactly them.
C7_EveryRecordFedOnce ==
    Advanced =>
        LET k == Len(adv.deframed)
        IN  /\ k <= Len(incoming)
            /\ adv.deframed = Prefix(incoming, k)
            /\ status.discard = SumLen(adv.deframed)
            /\ DropBytes(incoming, partial, status.discard).recs
                   = SubSeq(incoming, k + 1, Len(incoming))
            /\ adv.fed = adv.deframed

\* C7 (amended): as C7, but a record deframed while the engine is poisoned
\* is consumed without being fed: the advance feeds every record it
\* deframes if it began with a sound engine, and none (deframing at most
\* one) if it began with a poisoned one.
C7_EveryRecordDeframedOnce ==
    Advanced =>
        LET k == Len(adv.deframed)
        IN  /\ k <= Len(incoming)
            /\ adv.deframed = Prefix(incoming, k)
            /\ status.discard = SumLen(adv.deframed)
            /\ DropBytes(incoming, partial, status.discard).recs
                   = SubSeq(incoming, k + 1, Len(incoming))
            /\ Pre.state.ok => adv.fed = adv.deframed
            /\ ~Pre.state.ok => (adv.fed = <<>> /\ k <= 1)

\* C7 happens: one advance deframes and feeds two records, the second of
\* which makes the engine fail.
C7_Witness ==
    /\ Advanced
    /\ Len(adv.fed) = 2
    /\ status.state = "Err"
    /\ status.discard = SumLen(incoming)

\* C8: the discard of a returned status, successful or not, is at most
\* the length of the incoming buffer passed to the advance.
C8_DiscardWithinBuffer ==
    Advanced => status.discard <= BufLen(incoming, partial)

\* C8 happens: an advance that fails consumes the whole buffer.
C8_Witness ==
    /\ Advanced
    /\ status.state = "Err"
    /\ status.discard > 0
    /\ status.discard = BufLen(incoming, partial)

\* The operations that write into the caller's outgoing buffer.
WriteOps == {"encode", "encrypt", "queue_close_notify"}

\* C9 (as claimed): encode on a guard that holds its chunk, encrypt and
\* queue_close_notify answer a zero-length buffer with InsufficientSize(R),
\* R > 0; the same operation called next on the same guard with a buffer of
\* at least R bytes succeeds and reports R bytes written.
C9_RoundTripAlways ==
    [][ /\ (op' \in WriteOps /\ ret'.len = 0
                /\ (op' = "encode" => guard.chunk # None))
            => (ret'.kind = "InsufficientSize" /\ ret'.n > 0)
        /\ (op' \in WriteOps /\ op' = op /\ ret.kind = "InsufficientSize"
                /\ ret'.len >= ret.n)
            => (ret'.kind = "Ok" /\ ret'.n = ret.n
                /\ Len(outgoing') = ret'.len
                /\ \A i \in (ret.n + 1)..ret'.len : outgoing'[i] = 0)
      ]_vars

\* C9: encode on a guard that holds its chunk, encrypt and
\* queue_close_notify answer a zero-length buffer with InsufficientSize(R),
\* R > 0; the same operation called next on the same guard with a buffer of
\* at least R bytes succeeds and reports R bytes written, leaving the rest
\* of the buffer as it was, unless it is encrypt or queue_close_notify and
\* the sequence space of the traffic key is exhausted: then it returns
\* EncryptExhausted, writes nothing and leaves the connection as it was.
C9_InsufficientSizeRoundTrip ==
    [][ /\ (op' \in WriteOps /\ ret'.len = 0
                /\ (op' = "encode" => guard.chunk # None))
            => (ret'.kind = "InsufficientSize" /\ ret'.n > 0)
        /\ (op' \in WriteOps /\ op' = op /\ ret.kind = "InsufficientSize"
                /\ ret'.len >= ret.n)
            => IF op' # "encode" /\ Exhausted(conn)
               THEN /\ ret'.kind = "EncryptExhausted"
                    /\ outgoing' = Blank(ret'.len)
                    /\ conn' = conn
               ELSE /\ ret'.kind = "Ok"
                    /\ ret'.n = ret.n
                    /\ Len(outgoing') = ret'.len
                    /\ \A i \in (ret.n + 1)..ret'.len : outgoing'[i] = 0
      ]_vars

\* C9 happens: an encrypt that failed with InsufficientSize(R) has been
\* retried on the same guard with a buffer of exactly R bytes, and has
\* written its record.
C9_Witness ==
    /\ op = "encrypt"
    /\ ret.kind = "Ok"
    /\ guard.required > 0
    /\ ret.len = guard.required
    /\ ret.n = guard.required
    /\ outgoing = Encrypted(<<7>>)

\* C10: an encode that returns InsufficientSize or AlreadyEncoded leaves
\* the outgoing slice, wants_write, the queues and the flags as they were,
\* and after InsufficientSize the guard still holds its chunk.
C10_FailedEncodeMutatesNothing ==
    [][ (op' = "encode" /\ ret'.kind \in {"InsufficientSize", "AlreadyEncoded"})
            => /\ outgoing' = Blank(ret'.len)
               /\ conn' = conn
               /\ guard'.chunk = guard.chunk
               /\ ret'.kind = "InsufficientSize" => guard'.chunk # None
               /\ ret'.kind = "AlreadyEncoded" => guard.chunk = None
      ]_vars

\* C10 happens: encode has failed on a buffer that is not empty but too
\* small, with wants_write not set.
C10_Witness ==
    /\ op = "encode"
    /\ ret.kind = "InsufficientSize"
    /\ ret.len > 0
    /\ ~conn.wants_write
    /\ guard.chunk # None

\* Whether the sequence p is the beginning of the sequence q.
IsPrefix(p, q) == Len(p) <= Len(q) /\ SubSeq(q, 1, Len(p)) = p

RECURSIVE Replay(_, _)
\* The connection after the engine has been fed the records `recs`, one
\* after the other, with nothing taken from the queues in between.
Replay(c, recs) ==
    IF recs = <<>> THEN c ELSE Replay(Feed(c, Head(recs)).conn, Tail(recs))

\* C11 (as claimed): every chunk the engine queues is written to an
\* outgoing buffer exactly once, whatever the caller does with the guards:
\* a chunk leaves the outbound queue only as the chunk of a
\* MustEncodeTlsData guard, head first, and a chunk a guard holds stays
\* with the guard until a successful encode writes it.
C11_ChunkConsumedOnce ==
    [][ /\ (guard.kind = "MustEncodeTlsData" /\ guard.chunk # None)
            => \/ guard'.chunk = guard.chunk
               \/ /\ op' = "encode"
                  /\ ret'.kind = "Ok"
                  /\ SubSeq(outgoing', 1, ret'.n) = guard.chunk[1]
        /\ conn.sendable_tls # <<>>
            => \/ IsPrefix(conn.sendable_tls, conn'.sendable_tls)
               \/ /\ op' = "process_tls_records"
                  /\ status'.state = "MustEncodeTlsData"
                  /\ guard'.chunk = Some(Head(conn.sendable_tls))
                  /\ IsPrefix(Tail(conn.sendable_tls), conn'.sendable_tls)
      ]_vars

\* C12: an advance that returns MustEncodeTlsData hands out the oldest
\* chunk of the outbound queue (the chunks that were queued before the
\* advance, then those the engine queued during it) and leaves the others
\* in their order; a successful encode writes exactly the bytes of the
\* guard's chunk at the start of the outgoing slice and nothing else, so
\* that the bytes written, followed by the chunks still queued, are the
\* queued chunks in queue order.
C12_FifoVerbatim ==
    [][ /\ (op' = "process_tls_records"
                /\ status'.state = "MustEncodeTlsData")
            => LET q == Replay(conn, adv'.fed).sendable_tls
               IN  /\ q # <<>>
                   /\ guard'.chunk = Some(Head(q))
                   /\ conn'.sendable_tls = Tail(q)
        /\ (op' = "encode" /\ ret'.kind = "Ok")
            => /\ guard.chunk # None
               /\ ret'.n = Len(guard.chunk[1])
               /\ Len(outgoing') = ret'.len
               /\ SubSeq(outgoing', 1, ret'.n) = guard.chunk[1]
               /\ \A i \in (ret'.n + 1)..ret'.len : outgoing'[i] = 0
               /\ SubSeq(outgoing', 1, ret'.n) \o Flatten(conn'.sendable_tls)
                    = Flatten(Replay(Pre, adv.fed).sendable_tls)
      ]_vars

\* C12 happens: the first of two queued chunks has been encoded into a
\* slice larger than the chunk.
C12_Witness ==
    /\ op = "encode"
    /\ ret.kind = "Ok"
    /\ ret.len > ret.n
    /\ conn.sendable_tls # <<>>
    /\ SubSeq(outgoing, 1, ret.n) # conn.sendable_tls[1]

\* C13: the first encode on a guard, and an encode that follows encodes
\* that all failed with InsufficientSize, never returns AlreadyEncoded; an
\* encode that follows a successful encode on the same guard returns
\* AlreadyEncoded and changes neither the slice nor the connection.
C13_EncodeOneShot ==
    [][ op' = "encode" =>
          /\ (op = "process_tls_records"
                \/ (op = "encode" /\ ret.kind = "InsufficientSize"))
              => ret'.kind # "AlreadyEncoded"
          /\ (op = "encode" /\ ret.kind \in {"Ok", "AlreadyEncoded"})
              => /\ ret'.kind = "AlreadyEncoded"
                 /\ outgoing' = Blank(ret'.len)
                 /\ conn' = conn
      ]_vars

\* C13 happens: encode failed with InsufficientSize, succeeded, and was
\* then called again with a slice large enough for the chunk.
C13_Witness ==
    /\ op = "encode"
    /\ ret.kind = "AlreadyEncoded"
    /\ guard.required > 0
    /\ ret.len >= guard.required

\* The statuses of a connection with nothing to do.
IdleStatuses == {"TrafficTransit", "ConnectionClosed", "NeedsMoreTlsData"}

\* C14: a successful encode sets wants_write; only done clears it; and an
\* advance of a connection with wants_write set returns none of
\* TrafficTransit, ConnectionClosed and NeedsMoreTlsData.
C14_TransmitAfterEncode ==
    [][ /\ (op' = "encode" /\ ret'.kind = "Ok") => conn'.wants_write
        /\ (conn.wants_write /\ ~conn'.wants_write) => op' = "done"
        /\ (op' = "process_tls_records" /\ conn.wants_write)
            => status'.state \notin IdleStatuses
      ]_vars

\* C14 happens: after an encode, an advance of a connection that may send
\* application data and has received close_notify returns
\* MustTransmitTlsData.
C14_Witness ==
    /\ Advanced
    /\ Pre.wants_write
    /\ Pre.may_send_application_data
    /\ Pre.has_received_close_notify
    /\ status.state = "MustTransmitTlsData"

\* C15: done clears wants_write; a MustTransmitTlsData guard released
\* without done leaves wants_write set, and the advance that follows, with
\* empty queues and no complete record, returns MustTransmitTlsData again.
C15_DoneOnlyWayOut ==
    [][ /\ op' = "done" => ~conn'.wants_write
        /\ (guard.kind = "MustTransmitTlsData" /\ op' = "discard")
            => conn'.wants_write
        /\ (op' = "process_tls_records" /\ conn.wants_write
                /\ QueuesEmpty(conn) /\ incoming = <<>>)
            => (status'.state = "MustTransmitTlsData" /\ conn'.wants_write)
      ]_vars

\* C15 happens: done has cleared wants_write on a guard the caller also
\* probed for an encrypting guard.
C15_Witness ==
    /\ op = "done"
    /\ ~conn.wants_write
    /\ status.state = "MustTransmitTlsData"
    /\ conn.may_send_application_data

\* C16: no step (advance or guard operation) changes
\* may_send_application_data from true to false.
C16_MonotoneTrafficFlag ==
    [][ conn.may_send_application_data => conn'.may_send_application_data
      ]_vars

\* C16 happens: an advance of a connection that may send application data
\* has ended with an error of the engine.
C16_Witness ==
    /\ Advanced
    /\ Pre.may_send_application_data
    /\ status.state = "Err"
    /\ adv.fed # <<>>
    /\ conn.may_send_application_data

\* C17: may_encrypt_app_data returns a guard exactly if
\* may_send_application_data is set when it is called, and changes nothing
\* of the connection; TrafficTransit is returned only by a connection that
\* may send application data.
C17_MayEncryptIffTraffic ==
    [][ /\ op' = "may_encrypt_app_data"
            => /\ (ret'.kind = "Some") = conn.may_send_application_data
               /\ conn' = conn
        /\ status'.state = "TrafficTransit"
            => conn'.may_send_application_data
      ]_vars

\* C17 happens: may_encrypt_app_data has returned no guard, on a
\* connection that is still handshaking.
C17_Witness ==
    /\ op = "may_encrypt_app_data"
    /\ ret.kind = "None"
    /\ ~conn.may_send_application_data
    /\ conn.wants_write

\* The queues of connection c with `chunk` put back in front of queue `q`.
WithChunk(c, q, chunk) ==
    [early_data |->
        (IF q = "EarlyDataAvailable" THEN chunk ELSE <<>>) \o c.early_data,
     received_plaintext |->
        (IF q = "AppDataAvailable" THEN chunk ELSE <<>>)
            \o c.received_plaintext,
     sendable_tls |->
        (IF q = "MustEncodeTlsData" THEN chunk ELSE <<>>) \o c.sendable_tls]

\* C18: what an advance leaves in the three queues is what was in them
\* before, with what the engine queued during the advance, less the one
\* chunk the returned status carries: the head of the early-data queue for
\* EarlyDataAvailable, of the plaintext queue for AppDataAvailable, of the
\* outbound queue for MustEncodeTlsData, and nothing for the other
\* statuses and for errors.
C18_OneChunkPerAdvance ==
    Advanced =>
        LET r == Replay(Pre, adv.fed)
        IN  /\ Len(guard.chunk) <= 1
            /\ (guard.chunk # None) =
                  (status.state \in {"EarlyDataAvailable", "AppDataAvailable",
                                     "MustEncodeTlsData"})
            /\ WithChunk(conn, status.state, guard.chunk)
                  = WithChunk(r, "None", None)

\* C18 happens: an advance has handed out one plaintext chunk and left a
\* plaintext chunk and outbound chunks queued.
C18_Witness ==
    /\ Advanced
    /\ status.state = "AppDataAvailable"
    /\ guard.chunk # None
    /\ conn.received_plaintext # <<>>
    /\ conn.sendable_tls # <<>>
    /\ adv.fed # <<>>

\* n times the status s.
Times(n, s) == [i \in 1..n |-> s]

\* The transcripts of the TLS 1.3 handshake.
Client13 ==
    <<"MustEncodeTlsData", "MustTransmitTlsData", "NeedsMoreTlsData",
      "MustEncodeTlsData", "MustTransmitTlsData">>
        \o Times(3, "NeedsMoreTlsData")
        \o <<"MustEncodeTlsData", "MustTransmitTlsData">>
        \o Times(5, "TrafficTransit")

Server13 ==
    <<"NeedsMoreTlsData">> \o Times(6, "MustEncodeTlsData")
        \o <<"MustTransmitTlsData", "NeedsMoreTlsData">>
        \o Times(4, "MustEncodeTlsData")
        \o <<"MustTransmitTlsData", "TrafficTransit">>

\* The transcripts of the TLS 1.2 handshake.
Client12 ==
    <<"MustEncodeTlsData", "MustTransmitTlsData">>
        \o Times(4, "NeedsMoreTlsData")
        \o Times(3, "MustEncodeTlsData")
        \o <<"MustTransmitTlsData">>
        \o Times(2, "NeedsMoreTlsData")
        \o <<"TrafficTransit">>

Server12 ==
    <<"NeedsMoreTlsData">> \o Times(4, "MustEncodeTlsData")
        \o <<"MustTransmitTlsData">>
        \o Times(3, "NeedsMoreTlsData")
        \o Times(2, "MustEncodeTlsData")
        \o <<"MustTransmitTlsData", "TrafficTransit">>

\* The handshake has stopped: it is no side's turn to advance and no step
\* handles the status at hand.
HsStopped ==
    /\ hs.pc # "advance"
    /\ ~ENABLED (HsProbe \/ HsWrite \/ HsDone \/ HsNothing \/ HsTurn)

\* The handshake goes as the transcripts `client` and `server` say: what
\* the two sides have returned so far is the beginning of them; the
\* handshake stops only at the end of the rounds, with no error, both
\* sides at TrafficTransit and both transcripts complete, each of at most
\* 20 advances.
Transcripts(client, server) ==
    /\ IsPrefix(hs.transcript.client, client)
    /\ IsPrefix(hs.transcript.server, server)
    /\ Len(hs.transcript.client) <= 20
    /\ Len(hs.transcript.server) <= 20
    /\ HsStopped
        => /\ hs.pc = "end"
           /\ hs.handshake_done.client /\ hs.handshake_done.server
           /\ hs.transcript.client = client
           /\ hs.transcript.server = server

\* C19: a TLS 1.3 handshake of a fresh client and server, driven in lock
\* step without application actions, ends without error with both sides at
\* TrafficTransit, and the statuses of the client and of the server are
\* exactly Client13 and Server13.
C19_Tls13Handshake ==
    hs.version = "TLS13" => Transcripts(Client13, Server13)

\* C19 happens: the TLS 1.3 handshake has ended, the server having sent
\* its tickets.
C19_Witness ==
    /\ hs.version = "TLS13"
    /\ hs.pc = "end"
    /\ hs.transcript.client = Client13
    /\ hs.transcript.server = Server13
    /\ hs.conn.client.may_send_application_data
    /\ hs.conn.server.may_send_application_data
    /\ Len(hs.transcript.server) = 15

\* C20: a TLS 1.2 handshake driven in the same way ends without error with
\* both sides at TrafficTransit, and the statuses of the client and of the
\* server are exactly Client12 (13 statuses) and Server12.
C20_Tls12Handshake ==
    hs.version = "TLS12" => Transcripts(Client12, Server12)

\* C20 happens: the TLS 1.2 handshake has ended after 13 advances of each
\* side.
C20_Witness ==
    /\ hs.version = "TLS12"
    /\ hs.pc = "end"
    /\ Len(hs.transcript.client) = 13
    /\ hs.transcript.client = Client12
    /\ hs.transcript.server = Server12
    /\ hs.conn.client.may_send_application_data
    /\ hs.conn.server.may_send_application_data

\* C27 (as claimed): an advance in which deframing failed returns the error
\* and leaves the engine state set to that error.
C27_DeframeErrorPoisons ==
    (Advanced /\ status.state = "Err" /\ status.err = "InvalidMessage")
        => conn.state = Err("InvalidMessage")

\* C28: an advance in which the engine failed on a record returns the
\* engine's error with a discard that covers the records deframed, the
\* offending one included, and leaves the engine state set to that error;
\* an advance that deframes a record while the engine state is an error
\* returns that error, leaves the state as it is and hands no record to the
\* engine.
C28_EngineErrorPoisons ==
    Advanced =>
        /\ (/\ status.state = "Err"
            /\ status.err = "InappropriateMessage"
            /\ Pre.state.ok)
               => /\ conn.state = Err(status.err)
                  /\ adv.fed # <<>>
                  /\ adv.fed = adv.deframed
                  /\ status.discard = SumLen(adv.deframed)
        /\ (~Pre.state.ok /\ adv.deframed # <<>>)
               => /\ status.state = "Err"
                  /\ status.err = Pre.state.v
                  /\ conn.state = Pre.state
                  /\ adv.fed = <<>>

\* C28 happens: an advance has deframed a record on a connection whose
\* engine had failed in an advance before, and has returned the stored
\* error.
C28_Witness ==
    /\ Advanced
    /\ ~Pre.state.ok
    /\ adv.deframed # <<>>
    /\ status.state = "Err"
    /\ status.err = "InappropriateMessage"
    /\ adv.prev.state = "Err"

\* Record msg is fatal for a connection whose engine is in the traffic
\* state: it cannot be parsed, or the engine rejects it.
Fatal(msg) == msg.kind \in {"malformed", "early_data"}

\* C29: an advance that begins with empty queues, the handshake complete
\* and, in the incoming buffer, an application-data record followed by a
\* fatal record, returns AppDataAvailable with the first plaintext chunk
\* of the application-data record and a discard of exactly that record,
\* and no error; an advance that begins with plaintext pending returns
\* AppDataAvailable whatever the buffer holds; and an advance that begins
\* with empty queues and the fatal record at the head of the buffer
\* returns the error.
C29_PlaintextBeforeError ==
    Advanced =>
        /\ (/\ QueuesEmpty(Pre)
            /\ Pre.state = Ok("ExpectTraffic")
            /\ ~Pre.has_received_close_notify
            /\ Len(incoming) = 2
            /\ incoming[1].kind = "application_data"
            /\ Fatal(incoming[2]))
               => /\ status.state = "AppDataAvailable"
                  /\ guard.chunk = Some(Head(incoming[1].plain))
                  /\ status.discard = incoming[1].len
                  /\ adv.deframed = <<incoming[1]>>
                  /\ conn.state.ok
        /\ (Pre.early_data = <<>> /\ Pre.received_plaintext # <<>>)
               => status.state = "AppDataAvailable"
        /\ (/\ QueuesEmpty(Pre)
            /\ Pre.state = Ok("ExpectTraffic")
            /\ incoming # <<>>
            /\ Fatal(incoming[1]))
               => /\ status.state = "Err"
                  /\ status.err = IF incoming[1].kind = "malformed"
                                  THEN "InvalidMessage"
                                  ELSE "InappropriateMessage"

\* C29 happens: an advance has returned the plaintext of an
\* application-data record that a malformed record follows in the buffer.
C29_Witness ==
    /\ Advanced
    /\ status.state = "AppDataAvailable"
    /\ Len(incoming) = 2
    /\ incoming[1].kind = "application_data"
    /\ incoming[2].kind = "malformed"
    /\ adv.fed = <<incoming[1]>>
    /\ status.discard = incoming[1].len

\* C30 (as claimed): whenever a chunk is on the outbound queue, or encrypt
\* or queue_close_notify has just written a record, wants_write is set.
C30_OutputRaisesWantsWrite ==
    (\/ conn.sendable_tls # <<>>
     \/ op \in {"encrypt", "queue_close_notify"} /\ ret.kind = "Ok")
        => conn.wants_write

\* C30 (amended): wants_write is raised by a successful encode and by
\* nothing else, so a chunk on the outbound queue raises it only once it is
\* encoded; encrypt and queue_close_notify leave wants_write as it is; and
\* once set it stays set until done.
C30_OnlyEncodeRaises ==
    [][ /\ (~conn.wants_write /\ conn'.wants_write)
            => (op' = "encode" /\ ret'.kind = "Ok")
        /\ op' \in {"encrypt", "queue_close_notify"}
            => conn'.wants_write = conn.wants_write
        /\ (conn.wants_write /\ op' # "done") => conn'.wants_write
      ]_vars

\* C30 happens: encrypt has written a record through the guard of
\* TrafficTransit and wants_write is not set.
C30_Witness ==
    /\ op = "encrypt"
    /\ ret.kind = "Ok"
    /\ guard.kind = "TrafficTransit"
    /\ outgoing = Encrypted(<<7>>)
    /\ ~conn.wants_write

\* C25: an advance of a server that begins with an early-data chunk
\* pending returns EarlyDataAvailable with the head of the early-data
\* queue, whatever the plaintext queue, the outbound queue and the incoming
\* buffer hold, and deframes nothing; no advance of a client returns
\* EarlyDataAvailable.
C25_EarlyDataFirst ==
    Advanced =>
        /\ (Pre.role = "server" /\ Pre.early_data # <<>>)
               => /\ status.state = "EarlyDataAvailable"
                  /\ guard.chunk = Some(Head(Pre.early_data))
                  /\ conn.early_data = Tail(Pre.early_data)
                  /\ conn.received_plaintext = Pre.received_plaintext
                  /\ conn.sendable_tls = Pre.sendable_tls
                  /\ adv.deframed = <<>>
                  /\ status.discard = 0
        /\ Pre.role = "client" => status.state # "EarlyDataAvailable"

\* C25 happens: a server has returned EarlyDataAvailable in an advance that
\* began with early data pending, an outbound chunk queued and a record
\* waiting in the incoming buffer.
C25_Witness ==
    /\ Advanced
    /\ Pre.role = "server"
    /\ Pre.early_data # <<>>
    /\ Pre.sendable_tls # <<>>
    /\ incoming # <<>>
    /\ status.state = "EarlyDataAvailable"

\* How many times status s is in the transcript t.
Count(t, s) == Cardinality({i \in 1..Len(t) : t[i] = s})

\* A test has stopped: it is no side's turn to advance and no step handles
\* the status at hand.
TestsStopped ==
    /\ hs.pc # "advance"
    /\ ~ENABLED (HsProbe \/ HsWrite \/ TestTransmit \/ TestTrafficTransit
                    \/ TestNothing \/ TestReceived \/ TestTurn
                    \/ TestReconnect)

\* A test runs well: no advance returns an error, no State is one the test
\* does not expect, the rounds are at most MAX_ITERATIONS, and the test
\* stops only after its loop, with its assertions made.
RunsWell ==
    /\ hs.status.state # "Err"
    /\ hs.pc # "panic"
    /\ hs.count <= MAX_ITERATIONS
    /\ TestsStopped => hs.pc = "end"

\* C21: in the tests that send application data (client to server and
\* server to client, TLS 1.2 and TLS 1.3), the sender encrypts the payload
\* once, at the first status that lets it; what the two sides have
\* received is nothing and then that payload alone; only the peer of the
\* sender returns AppDataAvailable, at most once; and the test ends with
\* the payload received once, one AppDataAvailable, and both sides having
\* returned TrafficTransit.
C21_AppDataOnce ==
    hs.test \in {"app_data_client_to_server", "app_data_server_to_client"}
        => LET sender == Sender(hs.test)
               peer == Peer(sender)
           IN  /\ RunsWell
               /\ IsPrefix(hs.received_app_data, <<expected>>)
               /\ Count(hs.transcript[sender], "AppDataAvailable") = 0
               /\ Count(hs.transcript[peer], "AppDataAvailable")
                      = IF hs.pc = "handle"
                           /\ hs.status.state = "AppDataAvailable"
                        THEN 1 ELSE Len(hs.received_app_data)
               /\ (hs.pc = "finish" /\ hs.sent.sent_app_data)
                      => /\ hs.turn = sender
                         /\ hs.received_app_data = <<>>
               /\ hs.pc = "end"
                      => /\ hs.received_app_data = <<expected>>
                         /\ hs.actions[sender] = NO_ACTIONS
                         /\ Count(hs.transcript.client, "TrafficTransit") > 0
                         /\ Count(hs.transcript.server, "TrafficTransit") > 0

\* C21 happens: a TLS 1.2 test has ended in which the server encrypted the
\* payload and the client received it.
C21_Witness ==
    /\ hs.test = "app_data_server_to_client"
    /\ hs.version = "TLS12"
    /\ hs.pc = "end"
    /\ hs.received_app_data = <<expected>>
    /\ Count(hs.transcript.client, "AppDataAvailable") = 1

\* C22: in the tests that send a close_notify alert (client to server and
\* server to client, TLS 1.2 and TLS 1.3), no side returns an error, and
\* the test ends within MAX_ITERATIONS rounds, the sender having written
\* the alert through queue_close_notify and its peer having returned
\* ConnectionClosed; the peer returns ConnectionClosed only after the
\* alert was sent.
C22_CloseNotifyReaches ==
    hs.test \in {"close_notify_client_to_server",
                 "close_notify_server_to_client"}
        => LET sender == Sender(hs.test)
               peer == Peer(sender)
           IN  /\ RunsWell
               /\ Count(hs.transcript[sender], "ConnectionClosed") = 0
               /\ Count(hs.transcript[peer], "ConnectionClosed") > 0
                      => ~hs.actions[sender].send_close_notify
               /\ hs.reached_connection_closed_state
                      => Count(hs.transcript[peer], "ConnectionClosed") > 0
               /\ hs.pc = "end"
                      => /\ hs.reached_connection_closed_state
                         /\ hs.conn[peer].has_received_close_notify
                         /\ hs.actions[sender] = NO_ACTIONS

\* C22 happens: a TLS 1.3 test has ended in which the client wrote the
\* alert and the server returned ConnectionClosed.
C22_Witness ==
    /\ hs.test = "close_notify_client_to_server"
    /\ hs.version = "TLS13"
    /\ hs.pc = "end"
    /\ hs.reached_connection_closed_state
    /\ Count(hs.transcript.server, "ConnectionClosed") = 1

\* C23: in the early-data test, on the first connection the client has no
\* ticket, encrypts no early data and the server never returns
\* EarlyDataAvailable; the second connection resumes with the ticket of
\* the first, the client encrypts the payload in its first
\* MustTransmitTlsData (its second status), the server returns
\* EarlyDataAvailable while neither side has completed the handshake, what
\* it receives is that payload alone, and the test ends with the payload
\* received once.
C23_EarlyDataOnResumption ==
    hs.test = "early_data"
        => /\ RunsWell
           /\ Count(hs.transcript.client, "EarlyDataAvailable") = 0
           /\ hs.conn_count = 0
                  => /\ ~hs.resumed
                     /\ ~hs.sent.sent_early_data
                     /\ hs.actions.client.early_data_to_send
                            = Some(expected)
                     /\ Count(hs.transcript.server, "EarlyDataAvailable") = 0
                     /\ hs.received_early_data = <<>>
           /\ hs.conn_count = 1
                  => /\ hs.resumed
                     /\ hs.sent.sent_early_data
                            => hs.transcript.client
                                  = <<"MustEncodeTlsData",
                                      "MustTransmitTlsData">>
                     /\ (hs.actions.client.early_data_to_send = None)
                            = (\/ hs.count >= 2
                               \/ hs.count = 1 /\ hs.turn = "server")
                     /\ IsPrefix(hs.received_early_data, <<expected>>)
                     /\ (hs.pc = "handle"
                            /\ hs.status.state = "EarlyDataAvailable")
                            => /\ hs.turn = "server"
                               /\ hs.guard.chunk = Some(expected)
                               /\ ~hs.handshake_done.client
                               /\ ~hs.handshake_done.server
                               /\ ~hs.conn.client.may_send_application_data
                               /\ ~hs.conn.server.may_send_application_data
                     /\ hs.pc = "end"
                            => /\ hs.received_early_data = <<expected>>
                               /\ Count(hs.transcript.server,
                                        "EarlyDataAvailable") = 1

\* C23 happens: the second connection has ended, the server having
\* received the early data.
C23_Witness ==
    /\ hs.test = "early_data"
    /\ hs.conn_count = 1
    /\ hs.pc = "end"
    /\ hs.received_early_data = <<expected>>
    /\ hs.handshake_done.client
    /\ hs.handshake_done.server

\* C24: in the tests in which the server sends (application data or a
\* close_notify alert, TLS 1.2 and TLS 1.3), the server sends from a
\* MustTransmitTlsData whose may_encrypt_app_data gives a guard, before
\* it has ever returned TrafficTransit; whenever it returns TrafficTransit
\* it has nothing left to send, and it sends nothing from there.
C24_ServerSendsBeforeTraffic ==
    hs.test \in {"app_data_server_to_client", "close_notify_server_to_client"}
        => /\ RunsWell
           /\ (hs.sent # NoSent)
                  => /\ hs.turn = "server"
                     /\ hs.status.state = "MustTransmitTlsData"
                     /\ hs.conn.server.may_send_application_data
                     /\ Count(hs.transcript.server, "TrafficTransit") = 0
           /\ Count(hs.transcript.server, "TrafficTransit") > 0
                  => hs.actions.server = NO_ACTIONS
           /\ hs.pc = "end"
                  => Count(hs.transcript.server, "TrafficTransit") > 0

\* C24 happens: a TLS 1.3 server that has sent its close_notify from
\* MustTransmitTlsData returns its first TrafficTransit.
C24_Witness ==
    /\ hs.test = "close_notify_server_to_client"
    /\ hs.version = "TLS13"
    /\ hs.turn = "server"
    /\ hs.pc = "handle"
    /\ hs.status.state = "TrafficTransit"
    /\ Count(hs.transcript.server, "TrafficTransit") = 1
    /\ hs.actions.server = NO_ACTIONS
    /\ hs.conn.client.has_received_close_notify

\* C31: a MustEncodeTlsData status always carries a chunk of at least one
\* byte, so encode with a 0-byte slice on a guard that still holds its
\* chunk returns InsufficientSize(R) with R the size of the chunk, R > 0,
\* and no encode returns Ok with 0 bytes written.
C31_ZeroLengthRejected ==
    [][ /\ (op' = "process_tls_records"
                /\ status'.state = "MustEncodeTlsData")
            => (guard'.chunk # None /\ Len(guard'.chunk[1]) > 0)
        /\ (op' = "encode" /\ guard.chunk # None /\ ret'.len = 0)
            => /\ ret' = InsufficientSize(Len(guard.chunk[1]), 0)
               /\ ret'.n > 0
               /\ outgoing' = <<>>
        /\ (op' = "encode" /\ ret'.kind = "Ok") => ret'.n > 0
      ]_vars

\* C31 happens: the guard of a MustEncodeTlsData status has refused a
\* 0-byte slice and asked for the two bytes of its chunk.
C31_Witness ==
    /\ op = "encode"
    /\ status.state = "MustEncodeTlsData"
    /\ ret = InsufficientSize(2, 0)
    /\ guard.chunk = Some(ChunkB)

\* C32: the chunk of an AppDataAvailable status is the head of the inbound
\* plaintext queue (that of an EarlyDataAvailable status the head of the
\* early data) as the records fed by the advance left it; the first
\* next_record on the guard returns Some(Ok(record)) whose payload is that
\* chunk, every later next_record on it returns None, and next_record
\* returns nothing else.
C32_OneRecordPerGuard ==
    [][ /\ (op' = "process_tls_records"
                /\ status'.state = "AppDataAvailable")
            => guard'.chunk
                = Some(Head(Replay(conn, adv'.fed).received_plaintext))
        /\ (op' = "process_tls_records"
                /\ status'.state = "EarlyDataAvailable")
            => guard'.chunk = Some(Head(Replay(conn, adv'.fed).early_data))
        /\ op' = "next_record"
            => /\ guard.chunk # None
               /\ guard'.chunk = guard.chunk
               /\ guard'.taken
               /\ ret'.kind \in {"Some", "None"}
               /\ (op \in {"process_tls_records", "peek_len"} /\ ~guard.taken)
                    => (ret'.kind = "Some" /\ ret'.payload = guard.chunk[1])
               /\ (op = "next_record" \/ guard.taken) => ret' = NoRet
      ]_vars

\* C32 happens: next_record has been called a second time on an
\* AppDataAvailable guard whose chunk has two bytes, and returned None.
C32_Witness ==
    /\ op = "next_record"
    /\ guard.kind = "AppDataAvailable"
    /\ guard.chunk = Some(ChunkB)
    /\ guard.taken
    /\ ret = NoRet

\* C33 (as claimed): on an AppDataAvailable or EarlyDataAvailable guard
\* peek_len returns Some(size of the payload) exactly when the next
\* next_record returns a record, of that size, and None exactly when it
\* returns None; peek_len changes neither the guard nor the connection nor
\* any buffer.
C33_PeekLenAgrees ==
    [][ /\ op' = "peek_len"
            => /\ guard' = guard
               /\ conn' = conn
               /\ status' = status
               /\ incoming' = incoming
               /\ outgoing' = outgoing
               /\ ret'.kind \in {"Some", "None"}
               /\ (ret'.kind = "Some") = ~guard.taken
               /\ ret'.kind = "Some" => ret'.n = Len(guard.chunk[1])
        /\ (op = "peek_len" /\ op' = "next_record")
            => /\ (ret.kind = "Some") = (ret'.kind = "Some")
               /\ ret.kind = "Some" => ret.n = Len(ret'.payload)
      ]_vars

\* C34: an advance returns after at most one loop iteration more than the
\* incoming buffer holds complete records: every iteration but the last
\* has deframed one complete record, in the order of the buffer, and the
\* last one either returns without deframing or returns the error of the
\* record it deframed.
C34_AdvanceTerminates ==
    Advanced =>
        /\ adv.iters >= 1
        /\ adv.iters <= Len(incoming) + 1
        /\ Len(adv.deframed) \in {adv.iters - 1, adv.iters}
        /\ Len(adv.deframed) = adv.iters => status.state = "Err"
        /\ IsPrefix(adv.deframed, incoming)

\* C34 happens: an advance has taken three iterations on a buffer of two
\* complete records.
C34_Witness ==
    /\ Advanced
    /\ Len(incoming) = 2
    /\ adv.iters = 3
    /\ Len(adv.deframed) = 2

\* The statuses an advance returns when it finds nothing to hand out.
NothingPending ==
    {"MustTransmitTlsData", "ConnectionClosed", "TrafficTransit",
     "NeedsMoreTlsData"}

\* C35: when an advance returns MustTransmitTlsData, ConnectionClosed,
\* TrafficTransit or NeedsMoreTlsData, the early-data queue, the inbound
\* plaintext queue and the outbound queue are empty and the status tells
\* to discard every complete record of the incoming buffer: what stays
\* holds no complete record.
C35_IdleMeansNothingPending ==
    (Advanced /\ status.state \in NothingPending)
        => /\ conn.received_plaintext = <<>>
           /\ conn.sendable_tls = <<>>
           /\ conn.early_data = <<>>
           /\ adv.deframed = incoming
           /\ status.discard = SumLen(incoming)
           /\ DropBytes(incoming, partial, status.discard)
                = [recs |-> <<>>, tail |-> partial]
           /\ status.state = FallThrough(conn)

\* C35 happens: an advance has consumed a record and returned
\* ConnectionClosed with the beginning of a further record left in the
\* buffer.
C35_Witness ==
    /\ Advanced
    /\ status.state = "ConnectionClosed"
    /\ status.discard > 0
    /\ partial > 0
    /\ QueuesEmpty(conn)

\* The chunks the engine pushes onto the inbound plaintext queue while it
\* is fed the records `recs`, in push order.
Pushed(c, recs) ==
    Replay([c EXCEPT !.received_plaintext = <<>>], recs).received_plaintext

\* The chunks a step hands out as the payload of an AppDataAvailable
\* status: the chunk of the status an advance returns, if it is one.
Delivered ==
    IF op' = "process_tls_records" /\ status'.state = "AppDataAvailable"
    THEN <<guard'.chunk[1]>>
    ELSE <<>>

\* C36: the payloads handed out by successive AppDataAvailable statuses are
\* the chunks the engine pushed onto the inbound plaintext queue, in push
\* order, each once.  Stated step by step: the queue is empty at first,
\* only an advance touches it, and after every advance the chunk handed
\* out (if any) followed by the queue is the queue as it was followed by
\* the chunks pushed during the advance; one advance hands out at most the
\* head, and the record of the guard carries that chunk.
C36_PlaintextInOrderOnce ==
    [][ /\ Delivered \o conn'.received_plaintext
            = conn.received_plaintext
                \o (IF op' = "process_tls_records" /\ ~Idle' /\ Idle
                    THEN Pushed(conn, adv'.fed) ELSE <<>>)
        /\ op' # "process_tls_records"
            => conn'.received_plaintext = conn.received_plaintext
        /\ (op' = "next_record" /\ ret'.kind = "Some"
                /\ guard.kind = "AppDataAvailable")
            => (ret'.payload = guard.chunk[1] /\ status' = status)
      ]_vars

\* C36 happens: the second chunk of a record that carried two has been
\* handed out by the advance after the one that handed out the first.
C36_Witness ==
    /\ Advanced
    /\ status.state = "AppDataAvailable"
    /\ Pre.received_plaintext = <<ChunkEmpty>>
    /\ guard.chunk = Some(ChunkEmpty)
    /\ conn.received_plaintext = <<>>
    /\ adv.deframed = <<>>

\* The operations that are neither encode nor done.
NotWriters ==
    {"process_tls_records", "discard", "next_record", "peek_len",
     "may_encrypt_app_data", "encrypt", "queue_close_notify"}

\* C37: a step changes wants_write only if it is a successful encode, which
\* sets it, or done, which clears it; an advance, a release of the status,
\* next_record, peek_len, may_encrypt_app_data, encrypt and
\* queue_close_notify leave it as it is.  So after a write through the
\* guard of TrafficTransit wants_write is still clear, and an advance
\* returns MustTransmitTlsData only if wants_write was set before it.
C37_TwoWriters ==
    [][ /\ conn'.wants_write # conn.wants_write
            => \/ op' = "encode" /\ ret'.kind = "Ok" /\ conn'.wants_write
               \/ op' = "done" /\ ~conn'.wants_write
        /\ op' \in NotWriters => conn'.wants_write = conn.wants_write
        /\ (op' \in {"encrypt", "queue_close_notify"}
                /\ status.state = "TrafficTransit")
            => ~conn'.wants_write
        /\ (op' = "process_tls_records"
                /\ status'.state = "MustTransmitTlsData")
            => conn.wants_write
      ]_vars

\* C37 happens: the close_notify alert has been written through the guard
\* of TrafficTransit, and wants_write is clear.
C37_Witness ==
    /\ op = "queue_close_notify"
    /\ ret.kind = "Ok"
    /\ status.state = "TrafficTransit"
    /\ outgoing = CloseNotifyRecord
    /\ ~conn.wants_write

\* The advance the caller makes next if, after the advance just made, it
\* only removes the bytes the status told it to discard: no guard operation
\* and no new bytes.
Readvance ==
    process_tls_records(conn,
                        DropBytes(incoming, partial, status.discard).recs,
                        partial,
                        NoStatus)

\* C38: once an advance has returned ConnectionClosed, the advance made
\* next on the same buffer, with no guard operation in between, returns
\* ConnectionClosed with discard 0 and leaves the connection exactly as it
\* was, so every later such advance does the same.
C38_ConnectionClosedStable ==
    (Advanced /\ status.state = "ConnectionClosed")
        => /\ Readvance.state = "ConnectionClosed"
           /\ Readvance.discard = 0
           /\ Readvance.err = "none"
           /\ Readvance.chunk = None
           /\ Readvance.conn = conn
           /\ Readvance.trace.deframed = <<>>

\* C38 happens: an advance that began with has_received_close_notify set
\* and found nothing to consume has returned ConnectionClosed with discard
\* 0, part of a record waiting in the buffer.
C38_Witness ==
    /\ Advanced
    /\ status.state = "ConnectionClosed"
    /\ status.discard = 0
    /\ Pre.has_received_close_notify
    /\ conn = Pre
    /\ partial > 0
    /\ conn.may_send_application_data

\* C39: the discard of every AppDataRecord is 0, so what the caller has to
\* remove from its buffer after an advance, the discard of the status plus
\* that of the records it took, is the discard of the status: the length
\* of the records the advance consumed; and num_bytes of a NeedsMoreTlsData
\* status is None.
C39_NoExtraDiscardNoSizeHint ==
    /\ (op = "next_record" /\ ret.kind = "Some")
        => /\ ret.discard = 0
           /\ status.discard + ret.discard = SumLen(adv.deframed)
           /\ DropBytes(incoming, partial,
                        status.discard + ret.discard).recs
                = SubSeq(incoming, Len(adv.deframed) + 1, Len(incoming))
    /\ guard.num_bytes = None
    /\ (Advanced /\ status.state = "NeedsMoreTlsData")
        => guard = [NoGuard EXCEPT !.kind = "NeedsMoreTlsData"]

\* C39 happens: the record of an advance that consumed the record it came
\* in has been taken.
C39_Witness ==
    /\ op = "next_record"
    /\ ret.kind = "Some"
    /\ ret.discard = 0
    /\ status.discard > 0
    /\ Len(incoming) = 2

\* The value the dispatcher leaves in the engine state while the engine
\* processes a record.
Placeholder == Err("HandshakeNotComplete")

\* C40: the engine state is never the placeholder when an advance has
\* returned: an advance that began with a poisoned engine leaves the stored
\* error in place; one that began with a sound engine leaves Err(e) if the
\* engine failed with e, and else the state the engine reached (also when
\* the advance fed nothing or failed in the deframer).
C40_PlaceholderNeverLeaks ==
    /\ conn.state # Placeholder
    /\ Advanced
        => /\ ~Pre.state.ok => conn.state = Pre.state
           /\ (Pre.state.ok /\ status.state = "Err"
                    /\ status.err = "InappropriateMessage")
                => (conn.state = Err(status.err) /\ adv.fed # <<>>)
           /\ (Pre.state.ok
                    /\ ~(status.state = "Err"
                            /\ status.err = "InappropriateMessage"))
                => /\ conn.state.ok
                   /\ conn.state.v \in {"ExpectHandshake", "ExpectTraffic"}
                   /\ adv.fed = <<>> => conn.state = Pre.state

\* C40 happens: an advance of a poisoned connection has deframed a record,
\* returned the stored error and left it in the engine state.
C40_Witness ==
    /\ Advanced
    /\ ~Pre.state.ok
    /\ adv.deframed # <<>>
    /\ adv.fed = <<>>
    /\ status.state = "Err"
    /\ conn.state = Err(status.err)
    /\ conn.state = Pre.state

====
